---- MODULE Spec2Model ----
(***************************************************************************)
(* A model of the qualia object store (src/src/store.rs): the three SQLite *)
(* tables behind a Store, checkpoints (transactions that commit with a     *)
(* description), the change log, linear undo, checkpoint-id probes,        *)
(* CachedMapping, and the reads of a Collection (one, one_as,              *)
(* one_converted) through a derived shape.                                 *)
(*                                                                         *)
(* JSON text is modelled as the set of <<key, value>> members of the JSON  *)
(* object it denotes (member order and whitespace are not modelled); an    *)
(* Object (HashMap<String, PropValue>) is a function from keys to values.  *)
(***************************************************************************)
EXTENDS Integers, Sequences, FiniteSets, TLC

\* ------------------------------------------------------------------ bounds
MaxObjects == 2      \* add() is taken while sqlite_sequence < MaxObjects
MaxChanges == 3      \* a mutation is taken while the newest serial is below MaxChanges
MaxCommits == 2
\* like patterns and the texts they are matched against: every sequence of
\* at most this many of the model's characters
MaxPattern == 3
MaxText == 3
\* criteria added to one QueryBuilder
MaxCriteria == 3      \* commit() is taken while fewer than MaxCommits commits happened

\* the description the model passes to the n-th commit()
DescriptionOf == <<"d1", "d2", "d3", "d4", "d5">>
Descriptions == {DescriptionOf[n] : n \in 1..Len(DescriptionOf)}

\* ------------------------------------------------------- PropValue, Object
Number(n) == [type |-> "Number", n |-> n, s |-> ""]
String(s) == [type |-> "String", n |-> 0, s |-> s]

EmptyObject == [k \in {} |-> Number(0)]

\* HashMap::insert
insert(object, key, value) ==
    [k \in (DOMAIN object) \cup {key} |-> IF k = key THEN value ELSE object[k]]

\* serde_json::to_string(&Object): one JSON member per map entry
to_string(object) == {<<k, object[k]>> : k \in DOMAIN object}

\* serde_json::from_str::<Object>: one map entry per JSON member
from_str(json) ==
    [k \in {m[1] : m \in json} |-> (CHOOSE m \in json : m[1] = k)[2]]

\* SQLite json_patch(target, patch) (RFC 7396 merge; PropValue has no null,
\* so no member is ever removed)
json_patch(target, patch) ==
    {m \in target : m[1] \notin {p[1] : p \in patch}} \cup patch

\* the objects the model passes to add() and the patches it passes to set()
NewObjects ==
    {[name |-> String("a")], [name |-> String("b"), rank |-> Number(1)]}
Patches == {[name |-> String("b")], EmptyObject}

\* --------------------------------------------------------------- QueryNode
\* one record shape for the four variants; a field a variant does not have
\* holds a filler. A pattern, like every text the like matcher looks into,
\* is the sequence of its characters
Empty ==
    [node |-> "Empty", name |-> "", value |-> Number(0), pattern |-> <<>>,
     children |-> <<>>]
PropEqual(name, value) ==
    [node |-> "PropEqual", name |-> name, value |-> value, pattern |-> <<>>,
     children |-> <<>>]
PropLike(name, pattern) ==
    [node |-> "PropLike", name |-> name, value |-> Number(0),
     pattern |-> pattern, children |-> <<>>]
And(children) ==
    [node |-> "And", name |-> "", value |-> Number(0), pattern |-> <<>>,
     children |-> children]

\* QueryBuilder::id
id(n) == PropEqual("object-id", Number(n))
\* QueryBuilder::equal
equal(name, value) == PropEqual(name, value)
\* QueryBuilder::like
like(name, pattern) == PropLike(name, pattern)

\* the three states of a QueryBuilder, and Q
QueryBuilder_Empty == [state |-> "Empty", nodes |-> <<>>]
QueryBuilder_Single(node) == [state |-> "Single", nodes |-> <<node>>]
QueryBuilder_And(nodes) == [state |-> "And", nodes |-> nodes]
Q == QueryBuilder_Empty

\* an add that wraps the criteria so far in an And of their own
QueryBuilder_add_nests(self, node) ==
    CASE self.state = "Empty" -> QueryBuilder_Single(node)
      [] self.state = "Single" -> QueryBuilder_And(<<self.nodes[1], node>>)
      [] self.state = "And" -> QueryBuilder_And(<<And(self.nodes), node>>)

\* QueryBuilder::add
QueryBuilder_add(self, node) ==
    CASE self.state = "Empty" -> QueryBuilder_Single(node)
      [] self.state = "Single" -> QueryBuilder_And(<<self.nodes[1], node>>)
      [] self.state = "And" -> QueryBuilder_And(Append(self.nodes, node))

\* QueryBuilder::build
build(self) ==
    CASE self.state = "Single" -> self.nodes[1]
      [] self.state = "And" -> And(self.nodes)
      [] self.state = "Empty" -> Empty

\* SQLite CAST(x AS TEXT) / CAST(x AS NUMBER) of a JSON scalar, on the values
\* the model stores: small non-negative integers and non-numeric words
NumToText(n) == <<"0", "1", "2", "3", "4", "5", "6", "7", "8", "9">>[n + 1]
Cast(value, cast_type) ==
    IF cast_type = "TEXT"
    THEN IF value.type = "String" THEN value ELSE String(NumToText(value.n))
    ELSE IF value.type = "Number" THEN value ELSE Number(0)

\* json_extract(properties, "$.<name>"): << >> for SQL NULL
json_extract(properties, name) ==
    IF \E m \in properties : m[1] = name
    THEN <<(CHOOSE m \in properties : m[1] = name)[2]>>
    ELSE <<>>

\* ---------------------------------------------------------------- PropLike
\* str::split on a one-character separator: the pieces between separators,
\* empty ones included, so a text without separator is one piece
RECURSIVE split(_, _)
split(text, separator) ==
    IF \A i \in 1..Len(text) : text[i] # separator THEN <<text>>
    ELSE LET i == CHOOSE i \in 1..Len(text) :
                    /\ text[i] = separator
                    /\ \A j \in 1..(i - 1) : text[j] # separator
         IN  <<SubSeq(text, 1, i - 1)>>
                \o split(SubSeq(text, i + 1, Len(text)), separator)

\* [..].join(separator) on sequences of regex terms
RECURSIVE join(_, _)
join(pieces, separator) ==
    IF pieces = <<>> THEN <<>>
    ELSE IF Len(pieces) = 1 THEN pieces[1]
    ELSE pieces[1] \o separator \o join(Tail(pieces), separator)

\* the characters regex::escape puts a backslash before
MetaCharacters ==
    {"\\", ".", "+", "*", "?", "(", ")", "|", "[", "]", "{", "}", "^", "$",
     "#", "&", "-", "~"}

\* regex::escape, giving one regex term per character: the character
\* itself, or the character after a backslash
escape(piece) ==
    [i \in 1..Len(piece) |->
        IF piece[i] \in MetaCharacters THEN "\\" \o piece[i] ELSE piece[i]]

\* the compilation without `.filter(|word| word != &"")`
like_keeps_empty_words(name, pattern) ==
    LET words == split(pattern, " ")
        wrapped_words ==
            [w \in 1..Len(words) |->
                <<"\\b">>
                \o join([p \in 1..Len(split(words[w], "*")) |->
                            escape(split(words[w], "*")[p])], <<"\\w*">>)
                \o <<"\\b">>]
    IN  [clause |-> <<"CAST(json_extract(properties, \"$.", name,
                      "\") AS TEXT) REGEXP ?">>,
         params |-> << <<"(?i)">> \o join(wrapped_words, <<".*?">>) >>]

\* QueryNode::like_to_sql_clause: the clause and its parameters; the regex is
\* the sequence of its terms
like_to_sql_clause(name, pattern) ==
    LET words == SelectSeq(split(pattern, " "), LAMBDA word : word # <<>>)
        wrapped_words ==
            [w \in 1..Len(words) |->
                <<"\\b">>
                \o join([p \in 1..Len(split(words[w], "*")) |->
                            escape(split(words[w], "*")[p])], <<"\\w*">>)
                \o <<"\\b">>]
    IN  [clause |-> <<"CAST(json_extract(properties, \"$.", name,
                      "\") AS TEXT) REGEXP ?">>,
         params |-> << <<"(?i)">> \o join(wrapped_words, <<".*?">>) >>]

\* the letters and digits of the texts the model uses (\w)
WordCharacters ==
    {"a", "b", "c", "d", "e", "f", "g", "h", "i", "j", "k", "l", "m", "n",
     "o", "p", "q", "r", "s", "t", "u", "v", "w", "x", "y", "z",
     "A", "B", "H", "L"}

\* char::to_lowercase on those
to_lowercase(c) ==
    CASE c = "A" -> "a" [] c = "B" -> "b" [] c = "H" -> "h" [] c = "L" -> "l"
      [] OTHER -> c

\* Regex::is_match for the terms like_to_sql_clause emits: (?i) makes what
\* follows it case-insensitive, \b is a word boundary, \w* any run of word
\* characters, .*? any run of characters other than line feed, an escaped
\* or plain character stands for itself; the search is not anchored
RECURSIVE match_at(_, _, _, _, _)
match_at(regex, i, text, pos, insensitive) ==
    LET is_word(k) == k \in 1..Len(text) /\ text[k] \in WordCharacters
        t == regex[i]
        run(allowed(_)) ==
            \E n \in 0..(Len(text) + 1 - pos) :
                /\ \A k \in pos..(pos + n - 1) : allowed(k)
                /\ match_at(regex, i + 1, text, pos + n, insensitive)
        not_line_feed(k) == text[k] # "\n"
    IN  IF i > Len(regex) THEN TRUE
        ELSE IF t = "(?i)" THEN match_at(regex, i + 1, text, pos, TRUE)
        ELSE IF t = "\\b"
        THEN /\ is_word(pos - 1) # is_word(pos)
             /\ match_at(regex, i + 1, text, pos, insensitive)
        ELSE IF t = "\\w*" THEN run(is_word)
        ELSE IF t = ".*?" THEN run(not_line_feed)
        ELSE LET c == IF \E m \in MetaCharacters : t = "\\" \o m
                      THEN CHOOSE m \in MetaCharacters : t = "\\" \o m
                      ELSE t
             IN  /\ pos <= Len(text)
                 /\ IF insensitive
                    THEN to_lowercase(text[pos]) = to_lowercase(c)
                    ELSE text[pos] = c
                 /\ match_at(regex, i + 1, text, pos + 1, insensitive)

\* the regexp(pattern, text) function Store::add_regexp_function registers
regexp(regex, text) ==
    \E start \in 1..(Len(text) + 1) : match_at(regex, 1, text, start, FALSE)

\* the closure add_regexp_function registers: ctx.get_raw(1).as_str() is an
\* error for a value that is not text, and the closure returns it; text is
\* the value json_extract yields, cast to TEXT, or <<>> for NULL
regexp_function(regex, text) ==
    IF text = <<>> THEN [ok |-> FALSE, value |-> FALSE]
    ELSE [ok |-> TRUE, value |-> regexp(regex, Cast(text[1], "TEXT").s)]

\* QueryNode::equal_to_sql_clause, evaluated on one row of objects
equal_to_sql_clause(name, value, object_id, properties) ==
    IF name = "object-id"
    THEN value.type = "Number" /\ object_id = value.n
    ELSE LET cast_type == IF value.type = "String" THEN "TEXT" ELSE "NUMBER"
             x == json_extract(properties, name)
         IN  x # <<>> /\ Cast(x[1], cast_type) = value

\* QueryNode::to_sql_clause, evaluated as the WHERE clause on one row
RECURSIVE to_sql_clause(_, _, _)
to_sql_clause(query, object_id, properties) ==
    CASE query.node = "Empty" -> TRUE
      [] query.node = "PropEqual" ->
            equal_to_sql_clause(query.name, query.value, object_id, properties)
      [] query.node = "PropLike" ->
            LET compiled == like_to_sql_clause(query.name, query.pattern)
                x == json_extract(properties, query.name)
                r == regexp_function(compiled.params[1], x)
            IN  r.ok /\ r.value
      [] query.node = "And" ->
            \A i \in 1..Len(query.children) :
                to_sql_clause(query.children[i], object_id, properties)

Queries == {Empty, id(1), id(2), equal("name", String("a"))}

\* the queries the model passes to cached_map()
CacheQueries == {Empty, equal("name", String("a"))}

\* ----------------------------------------------------------------- state
VARIABLES
    conn,          \* the database: objects, sqlite_sequence, object_changes, checkpoints
    transaction,   \* << >>, or <<database at BEGIN>> while a Checkpoint is alive
    cached,        \* << >>, or <<the CachedMapping>>
    captured,      \* << >>, or <<a checkpoint id the caller keeps>>
    history,       \* the committed checkpoints not yet undone, oldest first
    assigned,      \* the largest checkpoint_id any commit was given so far
    added,         \* the largest object_id any add() returned so far
    returned,      \* what the last operation returned
    ncommits,      \* number of commits so far
    opening        \* << >>, or <<the position of a Store::open in progress>>

vars == <<conn, transaction, cached, captured, history, assigned, added,
          returned, ncommits, opening>>

\* Store::upgrade_if_needed: the schema, all tables empty
EmptyDatabase ==
    [objects |-> [k \in {} |-> {}],
     sqlite_sequence |-> 0,
     object_changes |-> {},
     checkpoints |-> {}]

\* maximum of a set of naturals, 0 when empty (IFNULL(MAX(...), 0))
Max(S) == IF S = {} THEN 0 ELSE CHOOSE x \in S : \A y \in S : y <= x

\* rows of objects selected by Collection::prepare_with_query
Matching(db, query) ==
    {k \in DOMAIN db.objects : to_sql_clause(query, k, db.objects[k])}

\* Collection::len
len(db, query) == Cardinality(Matching(db, query))

\* Collection::iter: the Objects read, keyed by row
iter(db, query) ==
    [k \in Matching(db, query) |->
        insert(from_str(db.objects[k]), "object_id", Number(k))]

\* Collection::one: Err(NotOne(len)) when more than one row matches, else the
\* first Object read, else Err(NotOne(0))
one(db, query) ==
    LET results == iter(db, query)
        n == len(db, query)
    IN  IF n > 1 THEN [ok |-> FALSE, err |-> "NotOne", n |-> n]
        ELSE IF DOMAIN results = {} THEN [ok |-> FALSE, err |-> "NotOne", n |-> 0]
        ELSE [ok |-> TRUE,
              value |-> results[CHOOSE k \in DOMAIN results :
                                    \A j \in DOMAIN results : k <= j]]

\* ------------------------------------------------------------- shapes
\* TryFrom<Object> as #[derive(ObjectShape)] generates it for the shape
\* `struct Blah { name: String }` of the tests: string_accessor("name")
try_from(object) ==
    IF "name" \notin DOMAIN object
    THEN [ok |-> FALSE, err |-> "FieldMissing"]
    ELSE IF object["name"].type # "String"
    THEN [ok |-> FALSE, err |-> "FieldWrongType"]
    ELSE [ok |-> TRUE, value |-> [name |-> object["name"].s]]

\* ObjectShape::try_convert for Blah: the converter of a String field is its
\* accessor, the store is not read
try_convert(object, db) == try_from(object)

\* Collection::iter_as: every Object read is converted, in row order, and
\* the first conversion error is returned
iter_as(db, query) ==
    LET results == iter(db, query)
        failed == {k \in DOMAIN results : ~try_from(results[k]).ok}
    IN  IF failed # {}
        THEN try_from(results[CHOOSE k \in failed : \A j \in failed : k <= j])
        ELSE [ok |-> TRUE,
              value |-> [k \in DOMAIN results |-> try_from(results[k]).value]]

\* a one_as that counts the matches before it converts them
one_as_counts_first(db, query) ==
    LET results == iter_as(db, query)
        n == len(db, query)
    IN  IF n > 1 THEN [ok |-> FALSE, err |-> "NotOne", n |-> n]
        ELSE IF n = 0 THEN [ok |-> FALSE, err |-> "NotOne", n |-> 0]
        ELSE IF ~results.ok THEN results
        ELSE [ok |-> TRUE,
              value |-> results.value[CHOOSE k \in DOMAIN results.value :
                                    \A j \in DOMAIN results.value : k <= j]]

\* Collection::one_as
one_as(db, query) ==
    LET results == iter_as(db, query)
        n == len(db, query)
    IN  IF ~results.ok THEN results
        ELSE IF n > 1 THEN [ok |-> FALSE, err |-> "NotOne", n |-> n]
        ELSE IF DOMAIN results.value = {}
        THEN [ok |-> FALSE, err |-> "NotOne", n |-> 0]
        ELSE [ok |-> TRUE,
              value |-> results.value[CHOOSE k \in DOMAIN results.value :
                                    \A j \in DOMAIN results.value : k <= j]]

\* Collection::iter_converted
iter_converted(db, query) ==
    LET results == iter(db, query)
        failed == {k \in DOMAIN results : ~try_convert(results[k], db).ok}
    IN  IF failed # {}
        THEN try_convert(results[CHOOSE k \in failed : \A j \in failed : k <= j],
                         db)
        ELSE [ok |-> TRUE,
              value |-> [k \in DOMAIN results |->
                            try_convert(results[k], db).value]]

\* Collection::one_converted
one_converted(db, query) ==
    LET results == iter_converted(db, query)
        n == len(db, query)
    IN  IF ~results.ok THEN results
        ELSE IF n > 1 THEN [ok |-> FALSE, err |-> "NotOne", n |-> n]
        ELSE IF DOMAIN results.value = {}
        THEN [ok |-> FALSE, err |-> "NotOne", n |-> 0]
        ELSE [ok |-> TRUE,
              value |-> results.value[CHOOSE k \in DOMAIN results.value :
                                    \A j \in DOMAIN results.value : k <= j]]

\* ------------------------------------------------- checkpoints and undo
\* the rowid SQLite gives a new row of a table whose INTEGER PRIMARY KEY is
\* not AUTOINCREMENT: one more than the largest rowid present
NextRowid(rowids) == Max(rowids) + 1

\* Checkpoint::record_change
record_change(db, change_type, object_id, previous) ==
    [db EXCEPT !.object_changes = @ \cup
        {[serial |-> NextRowid({c.serial : c \in db.object_changes}),
          action |-> change_type,
          object_id |-> object_id,
          previous |-> previous]}]

\* the id a table without AUTOINCREMENT gives: one more than the largest id
\* it holds now
rowid_without_autoincrement(db) == Max(DOMAIN db.objects) + 1

\* "INSERT INTO objects(properties) VALUES(?)" on the AUTOINCREMENT table:
\* the id is one more than the largest id the table ever held
last_insert_rowid(db) == Max({db.sqlite_sequence} \cup DOMAIN db.objects) + 1
insert_object(db, object_serialized) ==
    LET object_id == last_insert_rowid(db)
    IN  [db EXCEPT
            !.objects = [k \in (DOMAIN db.objects) \cup {object_id} |->
                            IF k = object_id THEN object_serialized
                            ELSE db.objects[k]],
            !.sqlite_sequence = object_id]

\* an add that returns the rowid the connection held before its INSERT
add_returns_stale_rowid(db, object) ==
    LET object_serialized == to_string(object)
        object_id == last_insert_rowid(db)
    IN  [value |-> object_id - 1,
         db |-> record_change(insert_object(db, object_serialized),
                              "add", object_id, to_string(EmptyObject))]

\* Checkpoint::add: the new row's id and the database afterwards
add(db, object) ==
    LET object_serialized == to_string(object)
        object_id == last_insert_rowid(db)
    IN  [value |-> object_id,
         db |-> record_change(insert_object(db, object_serialized),
                              "add", object_id, to_string(EmptyObject))]

\* the loop of MutableCollection::delete / set: one change per object read,
\* rows visited in rowid order
RECURSIVE record_each(_, _, _, _)
record_each(db, change_type, read, ids) ==
    IF ids = {} THEN db
    ELSE LET k == CHOOSE x \in ids : \A y \in ids : x <= y
         IN  record_each(
                record_change(db, change_type, read[k]["object_id"].n,
                              to_string(read[k])),
                change_type, read, ids \ {k})

\* a delete that removes the rows without recording the changes
delete_unrecorded(db, query) ==
    LET doomed == Matching(db, query)
    IN  [value |-> Cardinality(doomed),
         db |-> [db EXCEPT
                    !.objects = [k \in (DOMAIN db.objects) \ doomed |->
                                    db.objects[k]]]]

\* a delete whose DELETE removes only the first matching row
delete_first(db, query) ==
    LET read == iter(db, query)
        recorded == record_each(db, "delete", read, DOMAIN read)
        matching == Matching(recorded, query)
        doomed == {k \in matching : \A j \in matching : k <= j}
    IN  [value |-> Cardinality(doomed),
         db |-> [recorded EXCEPT
                    !.objects = [k \in (DOMAIN db.objects) \ doomed |->
                                    db.objects[k]]]]

\* MutableCollection::delete
delete(db, query) ==
    LET read == iter(db, query)
        recorded == record_each(db, "delete", read, DOMAIN read)
        doomed == Matching(recorded, query)
    IN  [value |-> Cardinality(doomed),
         db |-> [recorded EXCEPT
                    !.objects = [k \in (DOMAIN db.objects) \ doomed |->
                                    db.objects[k]]]]

\* a set that replaces the properties by the patch instead of merging
set_overwrites(db, query, fields) ==
    IF Cardinality(DOMAIN fields) = 0
    THEN [value |-> 0, db |-> db]
    ELSE LET read == iter(db, query)
             recorded == record_each(db, "update", read, DOMAIN read)
             fields_serialized == to_string(fields)
             updated == Matching(recorded, query)
         IN  [value |-> Cardinality(updated),
              db |-> [recorded EXCEPT
                        !.objects = [k \in DOMAIN db.objects |->
                            IF k \in updated
                            THEN fields_serialized
                            ELSE db.objects[k]]]]

\* a set without the early return for an empty patch
set_without_early_return(db, query, fields) ==
    LET read == iter(db, query)
        recorded == record_each(db, "update", read, DOMAIN read)
        fields_serialized == to_string(fields)
        updated == Matching(recorded, query)
    IN  [value |-> Cardinality(updated),
         db |-> [recorded EXCEPT
                    !.objects = [k \in DOMAIN db.objects |->
                        IF k \in updated
                        THEN json_patch(db.objects[k], fields_serialized)
                        ELSE db.objects[k]]]]

\* MutableCollection::set
set(db, query, fields) ==
    IF Cardinality(DOMAIN fields) = 0
    THEN [value |-> 0, db |-> db]
    ELSE LET read == iter(db, query)
             recorded == record_each(db, "update", read, DOMAIN read)
             fields_serialized == to_string(fields)
             updated == Matching(recorded, query)
         IN  [value |-> Cardinality(updated),
              db |-> [recorded EXCEPT
                        !.objects = [k \in DOMAIN db.objects |->
                            IF k \in updated
                            THEN json_patch(db.objects[k], fields_serialized)
                            ELSE db.objects[k]]]]

\* a create_checkpoint that inserts nothing when the newest checkpoint
\* already has the newest serial
create_checkpoint_if_changed(db, description) ==
    IF \E c \in db.checkpoints :
            c.serial = Max({e.serial : e \in db.object_changes})
    THEN db
    ELSE [db EXCEPT !.checkpoints = @ \cup
            {[checkpoint_id |->
                NextRowid({c.checkpoint_id : c \in db.checkpoints}),
              serial |-> Max({c.serial : c \in db.object_changes}),
              description |-> description]}]

\* Checkpoint::create_checkpoint
create_checkpoint(db, description) ==
    [db EXCEPT !.checkpoints = @ \cup
        {[checkpoint_id |-> NextRowid({c.checkpoint_id : c \in db.checkpoints}),
          serial |-> Max({c.serial : c \in db.object_changes}),
          description |-> description]}]

\* Store::last_checkpoint_id: query_row fails when the SELECT has no row
last_checkpoint_id(db) ==
    IF db.checkpoints = {}
    THEN [ok |-> FALSE, value |-> 0]
    ELSE [ok |-> TRUE, value |-> Max({c.checkpoint_id : c \in db.checkpoints})]

\* Store::modified_since
modified_since(db, a) ==
    LET b == last_checkpoint_id(db)
    IN  IF b.ok THEN [ok |-> TRUE, value |-> (a # b.value)]
        ELSE [ok |-> FALSE, value |-> FALSE]

\* Store::undo, "SELECT serial FROM checkpoints ORDER BY serial DESC LIMIT 2"
last_two_checkpoint_serials(db) ==
    IF db.checkpoints = {} THEN <<>>
    ELSE LET first == CHOOSE r \in db.checkpoints :
                        \A q \in db.checkpoints : q.serial <= r.serial
             rest == db.checkpoints \ {first}
         IN  IF rest = {} THEN <<first.serial>>
             ELSE <<first.serial, Max({r.serial : r \in rest})>>

\* "... FROM object_changes WHERE serial > ? ORDER BY serial DESC"
RECURSIVE changes_after(_, _)
changes_after(db, prev_checkpoint_serial) ==
    LET S == {c \in db.object_changes : c.serial > prev_checkpoint_serial}
    IN  IF S = {} THEN <<>>
        ELSE LET top == CHOOSE c \in S : \A d \in S : d.serial <= c.serial
             IN  <<top>> \o changes_after(
                    [db EXCEPT !.object_changes = S \ {top}],
                    prev_checkpoint_serial)

\* a replay that takes the changes oldest first
changes_oldest_first(db) ==
    LET serials == last_two_checkpoint_serials(db)
        newest_first == changes_after(db,
            IF Len(serials) > 1 THEN serials[2] ELSE 0)
    IN  [i \in 1..Len(newest_first) |->
            newest_first[Len(newest_first) + 1 - i]]

\* Store::undo, the changes it reads to replay: those after the serial of
\* the last checkpoint but one, newest first
changes_of_last_checkpoint(db) ==
    LET serials == last_two_checkpoint_serials(db)
    IN  changes_after(db, IF Len(serials) > 1 THEN serials[2] ELSE 0)

\* Store::undo, one arm of the match: the inverse of one change.  status is
\* "panic" when assert_eq!(rows, 1) fails and "Err" when the INSERT hits the
\* primary key
apply_inverse(st, change) ==
    LET present == change.object_id \in DOMAIN st.objects
    IN  CASE change.action = "add" ->
                IF present
                THEN [st EXCEPT !.objects =
                        [k \in (DOMAIN st.objects) \ {change.object_id} |->
                            st.objects[k]]]
                ELSE [st EXCEPT !.status = "panic"]
          [] change.action = "delete" ->
                IF present
                THEN [st EXCEPT !.status = "Err"]
                ELSE [st EXCEPT
                        !.objects =
                            [k \in (DOMAIN st.objects) \cup {change.object_id} |->
                                IF k = change.object_id THEN change.previous
                                ELSE st.objects[k]],
                        !.sqlite_sequence = Max({@, change.object_id})]
          [] change.action = "update" ->
                IF present
                THEN [st EXCEPT !.objects[change.object_id] = change.previous]
                ELSE [st EXCEPT !.status = "panic"]

\* Store::undo, the for loop over the changes
RECURSIVE replay(_, _)
replay(st, changes) ==
    IF changes = <<>> \/ st.status # "ok" THEN st
    ELSE replay(apply_inverse(st, Head(changes)), Tail(changes))

\* an undo without the early return on an empty checkpoint table
undo_without_early_return(db, row) ==
    LET serials == last_two_checkpoint_serials(db)
        cur_checkpoint_serial == IF Len(serials) > 0 THEN serials[1] ELSE 0
        prev_checkpoint_serial == IF Len(serials) > 1 THEN serials[2] ELSE 0
        changes == changes_after(db, prev_checkpoint_serial)
        st == replay([status |-> "ok", objects |-> db.objects,
                      sqlite_sequence |-> db.sqlite_sequence], changes)
    IN  IF st.status # "ok" THEN [value |-> st.status, db |-> db]
        ELSE [value |-> row.description,
              db |-> [objects |-> st.objects,
                      sqlite_sequence |-> st.sqlite_sequence,
                      object_changes |->
                        {c \in db.object_changes :
                            ~(c.serial > prev_checkpoint_serial)},
                      checkpoints |->
                        {c \in db.checkpoints :
                            c.serial # cur_checkpoint_serial}]]

\* Store::undo with the description row that "WHERE serial = ?" yields first;
\* value is the returned description, "None", "Err" or "panic"
undo(db, row) ==
    LET serials == last_two_checkpoint_serials(db)
    IN  IF Len(serials) = 0 THEN [value |-> "None", db |-> db]
        ELSE
        LET cur_checkpoint_serial == serials[1]
            prev_checkpoint_serial == IF Len(serials) > 1 THEN serials[2] ELSE 0
            changes == changes_of_last_checkpoint(db)
            st == replay([status |-> "ok", objects |-> db.objects,
                          sqlite_sequence |-> db.sqlite_sequence], changes)
        IN  IF st.status # "ok" THEN [value |-> st.status, db |-> db]
            ELSE [value |-> row.description,
                  db |-> [objects |-> st.objects,
                          sqlite_sequence |-> st.sqlite_sequence,
                          object_changes |->
                            {c \in db.object_changes :
                                ~(c.serial > prev_checkpoint_serial)},
                          checkpoints |->
                            {c \in db.checkpoints :
                                c.serial # cur_checkpoint_serial}]]

\* the rows "SELECT description FROM checkpoints WHERE serial = ?" can yield
description_rows(db) ==
    LET serials == last_two_checkpoint_serials(db)
    IN  {c \in db.checkpoints : Len(serials) > 0 /\ c.serial = serials[1]}

\* an undo whose statements are committed one by one
undo_interrupted_autocommit(db, done) ==
    LET serials == last_two_checkpoint_serials(db)
        cur_checkpoint_serial == serials[1]
        prev_checkpoint_serial == IF Len(serials) > 1 THEN serials[2] ELSE 0
        changes == changes_after(db, prev_checkpoint_serial)
        replayed == IF done < Len(changes) THEN done ELSE Len(changes)
        st == replay([status |-> "ok", objects |-> db.objects,
                      sqlite_sequence |-> db.sqlite_sequence],
                     SubSeq(changes, 1, replayed))
        discarded ==
            [objects |-> st.objects,
             sqlite_sequence |-> st.sqlite_sequence,
             object_changes |->
                IF done > Len(changes)
                THEN {c \in db.object_changes :
                        ~(c.serial > prev_checkpoint_serial)}
                ELSE db.object_changes,
             checkpoints |->
                IF done > Len(changes) + 1
                THEN {c \in db.checkpoints : c.serial # cur_checkpoint_serial}
                ELSE db.checkpoints]
    IN  [value |-> "Err", db |-> discarded]

\* Store::undo on a store with checkpoint rows, when a statement returns a
\* storage error and `?` returns: after `done` replayed inverses, after the
\* DELETE on object_changes (done = Len(changes) + 1), or in commit() after
\* the DELETE on checkpoints (done = Len(changes) + 2).  The transaction is
\* dropped, which rolls back what the statements before the error did.
undo_interrupted(db, done) ==
    LET serials == last_two_checkpoint_serials(db)
        cur_checkpoint_serial == serials[1]
        prev_checkpoint_serial == IF Len(serials) > 1 THEN serials[2] ELSE 0
        changes == changes_after(db, prev_checkpoint_serial)
        replayed == IF done < Len(changes) THEN done ELSE Len(changes)
        st == replay([status |-> "ok", objects |-> db.objects,
                      sqlite_sequence |-> db.sqlite_sequence],
                     SubSeq(changes, 1, replayed))
        discarded ==
            [objects |-> st.objects,
             sqlite_sequence |-> st.sqlite_sequence,
             object_changes |->
                IF done > Len(changes)
                THEN {c \in db.object_changes :
                        ~(c.serial > prev_checkpoint_serial)}
                ELSE db.object_changes,
             checkpoints |->
                IF done > Len(changes) + 1
                THEN {c \in db.checkpoints : c.serial # cur_checkpoint_serial}
                ELSE db.checkpoints]
    IN  \* the Transaction is dropped before commit(): discarded is rolled back
        [value |-> "Err", db |-> db]

\* ----------------------------------------------------------- CachedMapping
\* CachedMapping::valid
valid(cache, db) ==
    LET m == modified_since(db, cache.fetched_at_checkpoint)
    IN  IF m.ok THEN [ok |-> TRUE, value |-> ~m.value]
        ELSE [ok |-> FALSE, value |-> FALSE]

\* a refresh that extends the Vec instead of replacing it
refresh_extends(cache, db) ==
    [cache EXCEPT !.objects =
        [k \in (DOMAIN @) \cup Matching(db, cache.query) |->
            IF k \in DOMAIN @ THEN @[k] ELSE iter(db, cache.query)[k]]]

\* CachedMapping::refresh with f = |x, _| Ok(x)
refresh(cache, db) == [cache EXCEPT !.objects = iter(db, cache.query)]

\* CachedMapping::iter, len and exists read the Vec fetched ahead of time
CachedMapping_iter(cache) == cache.objects
CachedMapping_len(cache) == Cardinality(DOMAIN cache.objects)
CachedMapping_exists(cache) == CachedMapping_len(cache) > 0

\* ------------------------------------------------------------------ actions
Init ==
    /\ conn = EmptyDatabase
    /\ transaction = <<>>
    /\ cached = <<>>
    /\ captured = <<>>
    /\ history = <<>>
    /\ assigned = 0
    /\ added = 0
    /\ returned = [op |-> "open"]
    /\ ncommits = 0
    /\ opening = <<>>

LogFull == Max({c.serial : c \in conn.object_changes}) >= MaxChanges

\* Store::checkpoint / Checkpoint::new: BEGIN
Checkpoint ==
    /\ transaction = <<>>
    /\ transaction' = <<conn>>
    /\ returned' = [op |-> "checkpoint"]
    /\ UNCHANGED <<conn, cached, captured, history, assigned, added, ncommits, opening>>

\* Checkpoint::add
Add ==
    /\ transaction # <<>>
    /\ conn.sqlite_sequence < MaxObjects
    /\ ~LogFull
    /\ \E object \in NewObjects :
        LET r == add(conn, object)
        IN  /\ conn' = r.db
            /\ returned' = [op |-> "add", value |-> r.value,
                            object |-> object, added_before |-> added]
            /\ added' = Max({added, r.value})
    /\ UNCHANGED <<transaction, cached, captured, history, assigned, ncommits, opening>>

\* Checkpoint::query(q).delete()
Delete ==
    /\ transaction # <<>>
    /\ \E query \in Queries :
        /\ ~LogFull
        /\ LET r == delete(conn, query)
           IN  /\ conn' = r.db
               /\ returned' = [op |-> "delete", value |-> r.value,
                               query |-> query]
    /\ UNCHANGED <<transaction, cached, captured, history, assigned, added,
                   ncommits, opening>>

\* Checkpoint::query(q).set(fields)
Set ==
    /\ transaction # <<>>
    /\ \E query \in Queries, fields \in Patches :
        /\ ~LogFull
        /\ LET r == set(conn, query, fields)
           IN  /\ conn' = r.db
               /\ returned' = [op |-> "set", value |-> r.value,
                               query |-> query, fields |-> fields]
    /\ UNCHANGED <<transaction, cached, captured, history, assigned, added,
                   ncommits, opening>>

\* what a caller who counts changes since it captured an id sees
Changed(c) ==
    IF c = <<>> THEN c ELSE <<[c[1] EXCEPT !.changes = IF @ < 2 THEN @ + 1 ELSE @]>>
Stale(c) == IF c = <<>> THEN c ELSE <<[c[1] EXCEPT !.stale = TRUE]>>

\* a commit that re-fetches the CachedMapping
CommitRefetches ==
    /\ transaction # <<>>
    /\ ncommits < MaxCommits
    /\ ncommits < Len(DescriptionOf)
    /\ \E description \in {DescriptionOf[ncommits + 1]} :
        /\ conn' = create_checkpoint(conn, description)
        /\ history' = Append(history,
                [description |-> description, before |-> transaction[1]])
    /\ transaction' = <<>>
    /\ returned' = [op |-> "commit",
                    checkpoint_id |-> last_checkpoint_id(conn').value,
                    assigned_before |-> assigned]
    /\ assigned' = Max({assigned, last_checkpoint_id(conn').value})
    /\ cached' = IF cached = <<>> THEN cached
                 ELSE <<refresh(Stale(cached)[1], conn')>>
    /\ captured' = Changed(captured)
    /\ ncommits' = ncommits + 1
    /\ UNCHANGED opening
    /\ added' = added

\* Checkpoint::commit
Commit ==
    /\ transaction # <<>>
    /\ ncommits < MaxCommits
    /\ ncommits < Len(DescriptionOf)
    /\ \E description \in {DescriptionOf[ncommits + 1]} :
        /\ conn' = create_checkpoint(conn, description)
        /\ history' = Append(history,
                [description |-> description, before |-> transaction[1]])
    /\ transaction' = <<>>
    /\ returned' = [op |-> "commit",
                    checkpoint_id |-> last_checkpoint_id(conn').value,
                    assigned_before |-> assigned]
    /\ assigned' = Max({assigned, last_checkpoint_id(conn').value})
    /\ cached' = Stale(cached)
    /\ captured' = Changed(captured)
    /\ ncommits' = ncommits + 1
    /\ UNCHANGED opening
    /\ added' = added

\* a drop that commits instead (DropBehavior::Commit)
RollbackCommits(discarded) ==
    /\ conn' = discarded
    /\ transaction' = <<>>
    /\ returned' = [op |-> "drop", before |-> transaction[1],
                    discarded |-> discarded]
    /\ UNCHANGED <<cached, captured, history, assigned, added, ncommits, opening>>

\* rusqlite::Transaction dropped with DropBehavior::Rollback: the database
\* is the one at BEGIN again; discarded is the database the checkpoint saw
Rollback(discarded) ==
    /\ conn' = transaction[1]
    /\ transaction' = <<>>
    /\ returned' = [op |-> "drop", before |-> transaction[1],
                    discarded |-> discarded]
    /\ UNCHANGED <<cached, captured, history, assigned, added, ncommits, opening>>

\* a Checkpoint goes out of scope without commit()
Drop ==
    /\ transaction # <<>>
    /\ Rollback(conn)

\* Store::undo
NoRow == [checkpoint_id |-> 0, serial |-> 0, description |-> "None"]
Undo ==
    /\ transaction = <<>>
    /\ \E row \in description_rows(conn) \cup {NoRow} :
        /\ (row = NoRow) <=> (description_rows(conn) = {})
        /\ LET r == undo(conn, row)
               undid == r.value \in Descriptions
           IN  /\ conn' = r.db
               /\ returned' = [op |-> "undo", value |-> r.value,
                       undone |-> IF history = <<>> THEN <<>>
                                  ELSE <<history[Len(history)]>>,
                       replayed |-> IF row = NoRow THEN <<>>
                                    ELSE changes_of_last_checkpoint(conn)]
               /\ history' = IF undid /\ history # <<>>
                             THEN SubSeq(history, 1, Len(history) - 1)
                             ELSE history
               /\ captured' = IF undid THEN Changed(captured) ELSE captured
    /\ UNCHANGED <<transaction, cached, assigned, added, ncommits, opening>>

\* Store::cached_map / CachedMapping::new, through the store or through an
\* open checkpoint's deref
CachedMap ==
    /\ \E query \in CacheQueries :
        LET id0 == last_checkpoint_id(conn)
        IN  IF id0.ok
            THEN /\ cached' = <<refresh([fetched_at_checkpoint |-> id0.value,
                                         query |-> query,
                                         objects |-> EmptyObject,
                                         stale |-> FALSE], conn)>>
                 /\ returned' = [op |-> "cached_map", ok |-> TRUE]
            ELSE /\ cached' = cached
                 /\ returned' = [op |-> "cached_map", ok |-> FALSE]
    /\ UNCHANGED <<conn, transaction, captured, history, assigned, added,
                   ncommits, opening>>

\* CachedMapping::refresh_if_needed
RefreshIfNeeded ==
    /\ cached # <<>>
    /\ LET v == valid(cached[1], conn)
       IN  /\ cached' =
                IF ~v.ok THEN cached
                ELSE IF v.value THEN <<[cached[1] EXCEPT !.stale = FALSE]>>
                ELSE <<refresh([cached[1] EXCEPT
                            !.fetched_at_checkpoint = last_checkpoint_id(conn).value,
                            !.stale = FALSE], conn)>>
           /\ returned' = [op |-> "refresh_if_needed", ok |-> v.ok,
                           refreshed |-> (v.ok /\ ~v.value),
                           held |-> DOMAIN cached[1].objects]
    /\ UNCHANGED <<conn, transaction, captured, history, assigned, added,
                   ncommits, opening>>

\* the caller keeps the result of Store::last_checkpoint_id
LastCheckpointId ==
    /\ LET r == last_checkpoint_id(conn)
       IN  /\ captured' = IF r.ok THEN <<[id |-> r.value, changes |-> 0]>>
                          ELSE captured
           /\ returned' = [op |-> "last_checkpoint_id", ok |-> r.ok,
                           value |-> r.value]
    /\ UNCHANGED <<conn, transaction, cached, history, assigned, added,
                   ncommits, opening>>

Next ==
    \/ Checkpoint
    \/ Add
    \/ Delete
    \/ Set
    \/ Commit
    \/ Drop
    \/ Undo

Spec == Init /\ [][Next]_vars

\* ------------------------------------------------ storage failures
\* A mutation of an open checkpoint fails part-way with a storage error and
\* the caller's `?` returns, which drops the Checkpoint.

\* a prefix, in rowid order, of the rows a bulk mutation reads
Prefixes(ids) == {S \in SUBSET ids : \A k \in S, j \in ids : j < k => j \in S}

\* Checkpoint::add returns Err from record_change, after the INSERT
AddFails ==
    /\ transaction # <<>>
    /\ conn.sqlite_sequence < MaxObjects
    /\ \E object \in NewObjects :
        Rollback(insert_object(conn, to_string(object)))

\* MutableCollection::delete returns Err from a record_change or from the
\* DELETE, after it recorded some of the changes
DeleteFails ==
    /\ transaction # <<>>
    /\ \E query \in Queries :
        /\ ~LogFull
        /\ \E done \in Prefixes(Matching(conn, query)) :
            Rollback(record_each(conn, "delete", iter(conn, query), done))

\* MutableCollection::set returns Err from a record_change or from the
\* UPDATE, after it recorded some of the changes
SetFails ==
    /\ transaction # <<>>
    /\ \E query \in Queries, fields \in Patches :
        /\ Cardinality(DOMAIN fields) # 0
        /\ ~LogFull
        /\ \E done \in Prefixes(Matching(conn, query)) :
            Rollback(record_each(conn, "update", iter(conn, query), done))

\* Store::undo returns Err from one of its statements
UndoFails ==
    /\ transaction = <<>>
    /\ conn.checkpoints # {}
    /\ \E done \in 0..(MaxChanges + MaxObjects + 2) :
        /\ done <= Len(changes_after(conn,
                        IF Len(last_two_checkpoint_serials(conn)) > 1
                        THEN last_two_checkpoint_serials(conn)[2] ELSE 0)) + 2
        /\ LET r == undo_interrupted(conn, done)
           IN  /\ conn' = r.db
               /\ returned' = [op |-> "undo", value |-> r.value]
    /\ UNCHANGED <<transaction, cached, captured, history, assigned, added,
                   ncommits, opening>>

NextFaults ==
    \/ Next
    \/ AddFails
    \/ DeleteFails
    \/ SetFails

SpecFaults == Init /\ [][NextFaults]_vars

\* the store with an undo() that can fail on any of its statements
NextUndoFaults ==
    \/ Next
    \/ UndoFails

SpecUndoFaults == Init /\ [][NextUndoFaults]_vars

\* the store together with one CachedMapping
NextCache ==
    \/ Next
    \/ CachedMap
    \/ RefreshIfNeeded

SpecCache == Init /\ [][NextCache]_vars

\* the store together with a caller that keeps a checkpoint id
NextProbe ==
    \/ Next
    \/ LastCheckpointId

SpecProbe == Init /\ [][NextProbe]_vars

\* ------------------------------------------------ reads in a checkpoint
\* a read that runs on a second connection, which sees committed data only
connection_of_its_own(db, begun) == IF begun = <<>> THEN db ELSE begun[1]

\* the Connection a Collection runs its statement on: Checkpoint::query
\* passes &self.transaction and the reads reached through the deref pass
\* &self.store.conn; a rusqlite Transaction derefs to the Connection it was
\* begun on, so either way it is the connection with the open transaction
connection(db, begun) == db

\* a Collection handle, made through the open checkpoint by query(q) or
\* all() at any earlier time (it holds the query and the connection
\* reference, nothing else), is read now: iter(), len(), and all().iter()
Read ==
    /\ transaction # <<>>
    /\ \E query \in CacheQueries :
        LET c == connection(conn, transaction)
        IN  returned' = [op |-> "read", query |-> query,
                         result |-> iter(c, query),
                         len |-> len(c, query),
                         all |-> iter(c, Empty)]
    /\ UNCHANGED <<conn, transaction, cached, captured, history, assigned,
                   added, ncommits, opening>>

NextCheckpointReads ==
    \/ Next
    \/ Read

SpecCheckpointReads == Init /\ [][NextCheckpointReads]_vars

\* ------------------------------------------------------- reads
\* A store populated by one committed checkpoint, as the tests'
\* populated_store() builds it, and read through Collection::one, one_as and
\* one_converted.

\* the objects a populated store is built from: with and without a name
PopulatedObjects == NewObjects \cup {[rank |-> Number(1)]}
Populations ==
    UNION {[1..n -> PopulatedObjects] : n \in 0..MaxObjects}

\* checkpoint.add(...)? for each object in turn
RECURSIVE populate(_, _)
populate(db, objects) ==
    IF objects = <<>> THEN db
    ELSE populate(add(db, Head(objects)).db, Tail(objects))

InitPopulated ==
    /\ \E objects \in Populations :
        /\ conn = create_checkpoint(populate(EmptyDatabase, objects),
                                    DescriptionOf[1])
        /\ added = Len(objects)
    /\ transaction = <<>>
    /\ cached = <<>>
    /\ captured = <<>>
    /\ history = <<[description |-> DescriptionOf[1], before |-> EmptyDatabase]>>
    /\ assigned = 1
    /\ returned = [op |-> "commit", checkpoint_id |-> 1, assigned_before |-> 0]
    /\ ncommits = 1
    /\ opening = <<>>

\* store.query(q).one()
One ==
    /\ \E query \in Queries :
        returned' = [op |-> "one", query |-> query,
                     result |-> one(conn, query)]
    /\ UNCHANGED <<conn, transaction, cached, captured, history, assigned,
                   added, ncommits, opening>>

\* store.query(q).one_as::<Blah>()
OneAs ==
    /\ \E query \in Queries :
        returned' = [op |-> "one_as", query |-> query,
                     result |-> one_as(conn, query)]
    /\ UNCHANGED <<conn, transaction, cached, captured, history, assigned,
                   added, ncommits, opening>>

\* store.query(q).one_converted::<Blah>(&store)
OneConverted ==
    /\ \E query \in Queries :
        returned' = [op |-> "one_converted", query |-> query,
                     result |-> one_converted(conn, query)]
    /\ UNCHANGED <<conn, transaction, cached, captured, history, assigned,
                   added, ncommits, opening>>

NextRead ==
    \/ One
    \/ OneAs
    \/ OneConverted

SpecRead == InitPopulated /\ [][NextRead]_vars

\* ----------------------------------------------------- the WHERE clause
\* the text of the clause to_sql_clause returns, as its sequence of SQL
\* terms: "1=1" for Empty, the comparison for PropEqual, and for And the
\* children's clauses joined with " AND " (clauses.join: nothing for no
\* child, no separator around a single child)
\* a property name that holds double quotes
QuotedName == "a\", ?, \"b"

\* format!("...{}...", name): the text of the name as it stands in the clause,
\* cut where SQLite's tokenizer cuts it; a name without double quote and
\* question mark is one piece
sql_tokens(name) ==
    IF name = QuotedName THEN <<"a", "\"", ", ", "?", ", ", "\"", "b">>
    ELSE <<name>>

\* the first element of the pair to_sql_clause returns, as the pieces
\* SQLite's tokenizer sees: "\"" opens or closes a quoted string, "?" is a
\* placeholder outside a quoted string, "AND" stands for " AND "
RECURSIVE where_clause(_)
and_to_sql_clause(nodes) ==
    join([i \in 1..Len(nodes) |-> where_clause(nodes[i])], <<"AND">>)
where_clause(query) ==
    CASE query.node = "Empty" -> <<"1=1">>
      [] query.node = "PropEqual" ->
            IF query.name = "object-id" THEN <<"object_id = ", "?">>
            ELSE <<"CAST(json_extract(properties, ", "\"", "$.">>
                    \o sql_tokens(query.name)
                    \o <<"\"", ") AS ",
                         IF query.value.type = "String" THEN "TEXT"
                         ELSE "NUMBER",
                         ") = ", "?">>
      [] query.node = "PropLike" ->
            <<"CAST(json_extract(properties, ", "\"", "$.">>
                \o sql_tokens(query.name)
                \o <<"\"", ") AS TEXT) REGEXP ", "?">>
      [] query.node = "And" -> and_to_sql_clause(query.children)

\* the second element of the pair: the parameters
RECURSIVE where_params(_)
RECURSIVE and_params(_)
and_params(nodes) ==
    IF nodes = <<>> THEN <<>>
    ELSE where_params(Head(nodes)) \o and_params(Tail(nodes))
where_params(query) ==
    CASE query.node = "Empty" -> <<>>
      [] query.node = "PropEqual" -> <<query.value>>
      [] query.node = "PropLike" ->
            like_to_sql_clause(query.name, query.pattern).params
      [] query.node = "And" -> and_params(query.children)

\* the number of parameters SQLite expects for a clause: the question marks
\* outside quoted strings
RECURSIVE placeholders(_, _)
placeholders(clause, quoted) ==
    IF clause = <<>> THEN 0
    ELSE IF Head(clause) = "\"" THEN placeholders(Tail(clause), ~quoted)
    ELSE (IF Head(clause) = "?" /\ ~quoted THEN 1 ELSE 0)
            + placeholders(Tail(clause), quoted)

\* Connection::prepare of "<prefix> WHERE <clause>": SQLite accepts the
\* statement when the clause is an expression, that is comparisons
\* separated by single ANDs; an empty clause, or an AND with no operand on
\* one side, is a syntax error
prepare(clause) ==
    /\ clause # <<>>
    /\ clause[1] # "AND"
    /\ clause[Len(clause)] # "AND"
    /\ \A i \in 1..(Len(clause) - 1) : ~(clause[i] = "AND" /\ clause[i + 1] = "AND")

\* Collection::prepare_with_query: the `?` on prepare
prepare_with_query(query) ==
    IF prepare(where_clause(query)) THEN [ok |-> TRUE]
    ELSE [ok |-> FALSE, err |-> "SqliteFailure"]

\* the queries the model builds from And directly
AndQueries ==
    {Empty, And(<<>>), And(<<Empty>>), And(<<And(<<>>), Empty>>),
     And(<<equal("name", String("a")), id(1)>>),
     And(<<And(<<Empty, id(1)>>), equal("name", String("a"))>>),
     id(1), equal("name", String("a"))}

\* collection.len() as the caller sees it
CollectionLen ==
    /\ \E query \in AndQueries :
        returned' = [op |-> "len", query |-> query,
                     result |-> IF prepare_with_query(query).ok
                                THEN [ok |-> TRUE, value |-> len(conn, query)]
                                ELSE prepare_with_query(query)]
    /\ UNCHANGED <<conn, transaction, cached, captured, history, assigned,
                   added, ncommits, opening>>

\* collection.iter() as the caller sees it
CollectionIter ==
    /\ \E query \in AndQueries :
        returned' = [op |-> "iter", query |-> query,
                     result |-> IF prepare_with_query(query).ok
                                THEN [ok |-> TRUE, value |-> iter(conn, query)]
                                ELSE prepare_with_query(query)]
    /\ UNCHANGED <<conn, transaction, cached, captured, history, assigned,
                   added, ncommits, opening>>

NextAnd ==
    \/ CollectionLen
    \/ CollectionIter

SpecAnd == InitPopulated /\ [][NextAnd]_vars

\* ------------------------------------------------------------------- like
\* the texts of the title the model stores, and the patterns it looks for
TextCharacters == {"a", "B", " ", "\n"}
PatternCharacters == {"a", "b", "*", " ", "."}
Texts ==
    UNION {[1..n -> TextCharacters] : n \in 0..MaxText}
    \cup {<<"w", "h", "y", " ", "t", "h", "e", " ", "l", "u", "c", "k", "y", " ", "s", "t", "i", "f", "f">>,
           <<"b", "l", "a", "h">>,
           <<"B", "L", "A", "H">>,
           <<"b", "l", "a", "h", "b", "l", "a", "h">>,
           <<"h", "a", "l", "b">>}
Patterns ==
    UNION {[1..n -> PatternCharacters] : n \in 0..MaxPattern}
    \cup {<<"w", "h", "y">>,
           <<"w", "h", "y", " ", "l", "u", "c", "k", "*">>,
           <<"*", "t", "i", "f", "f">>,
           <<"t", "h", "e", " ", "*", "c", "k", "*">>,
           <<"w", "h">>,
           <<"l", "u", "c", "k", "y", " ", "w", "h", "y">>,
           <<"b", "l", "a", "h">>,
           <<"p", "h", "r", "*">>,
           <<"l", "o", "n", "*", " ", "*", "h", "r", "a", "s", "e">>}

\* a store holding one object, whose title is any of the texts, and the
\* collection handle store.query(Q.like("title", pattern)) has returned
InitLike ==
    /\ \E text \in Texts :
        conn = create_checkpoint(
                    populate(EmptyDatabase, <<[title |-> String(text)]>>),
                    DescriptionOf[1])
    /\ transaction = <<>>
    /\ cached = <<>>
    /\ captured = <<>>
    /\ history = <<[description |-> DescriptionOf[1], before |-> EmptyDatabase]>>
    /\ assigned = 1
    /\ added = 1
    /\ \E pattern \in Patterns :
        returned = [op |-> "query", query |-> like("title", pattern)]
    /\ ncommits = 1
    /\ opening = <<>>

\* iter() on that handle: the clause the query compiles to and the ids of
\* the objects found
Like ==
    /\ returned.op = "query"
    /\ returned' = [op |-> "like", pattern |-> returned.query.pattern,
                    compiled |-> like_to_sql_clause(returned.query.name,
                                                    returned.query.pattern),
                    found |-> DOMAIN iter(conn, returned.query)]
    /\ UNCHANGED <<conn, transaction, cached, captured, history, assigned,
                   added, ncommits, opening>>

NextLike ==
    \/ Like

SpecLike == InitLike /\ [][NextLike]_vars

\* ----------------------------------------------------------- QueryBuilder
\* a chain starts from Q; `calls` keeps the criteria of the chain's calls
InitBuilder ==
    /\ conn = EmptyDatabase
    /\ transaction = <<>>
    /\ cached = <<>>
    /\ captured = <<>>
    /\ history = <<>>
    /\ assigned = 0
    /\ added = 0
    /\ returned = [op |-> "Q", builder |-> Q, calls |-> <<>>]
    /\ ncommits = 0
    /\ opening = <<>>

\* the builder the last call returned takes (and is consumed by) one more
\* call
Chain(node) ==
    /\ returned.op \in {"Q", "id", "equal", "like"}
    /\ Len(returned.calls) < MaxCriteria
    /\ returned' = [op |-> IF node.node = "PropLike" THEN "like"
                           ELSE IF node.name = "object-id" THEN "id"
                           ELSE "equal",
                    builder |-> QueryBuilder_add(returned.builder, node),
                    calls |-> Append(returned.calls, node)]
    /\ UNCHANGED <<conn, transaction, cached, captured, history, assigned,
                   added, ncommits, opening>>

\* .id(n)
BuilderId == \E n \in 1..MaxObjects : Chain(id(n))

\* .equal(name, value)
BuilderEqual == Chain(equal("name", String("a")))

\* .like(name, pattern)
BuilderLike == Chain(like("name", <<"a", "*">>))

\* .build()
Build ==
    /\ returned.op \in {"Q", "id", "equal", "like"}
    /\ returned' = [op |-> "build", calls |-> returned.calls,
                    value |-> build(returned.builder)]
    /\ UNCHANGED <<conn, transaction, cached, captured, history, assigned,
                   added, ncommits, opening>>

NextBuilder ==
    \/ BuilderId
    \/ BuilderEqual
    \/ BuilderLike
    \/ Build

SpecBuilder == InitBuilder /\ [][NextBuilder]_vars

\* ------------------------------------------------------------ ObjectShape
\* what derive(ObjectShape) is given: the struct's fixed_fields attribute,
\* its fields in declaration order (ident, property name after #[field],
\* kind by type) and whether it has a #[rest_fields] field
FixedField(name, value) == [name |-> name, value |-> value]
Field(ident, name, kind) == [ident |-> ident, name |-> name, kind |-> kind]

CustomShape ==
    [ident |-> "CustomShape", fixed |-> <<>>,
     fields |-> <<Field("name", "my-name", "String"),
                  Field("width", "width", "Number")>>,
     rest |-> FALSE]
ShapeWithType ==
    [ident |-> "ShapeWithType",
     fixed |-> <<FixedField("foo", Number(1)),
                 FixedField("type", String("shape"))>>,
     fields |-> <<Field("width", "width", "Number")>>,
     rest |-> FALSE]
ShapeWithId ==
    [ident |-> "ShapeWithId", fixed |-> <<>>,
     fields |-> <<Field("object_id", "object_id", "ObjectId"),
                  Field("width", "width", "Number")>>,
     rest |-> FALSE]
ShapeWithRest ==
    [ident |-> "ShapeWithRest", fixed |-> <<>>,
     fields |-> <<Field("width", "width", "Number")>>,
     rest |-> TRUE]
ShapeWithAll ==
    [ident |-> "ShapeWithAll",
     fixed |-> <<FixedField("foo", Number(1)),
                 FixedField("type", String("shape"))>>,
     fields |-> <<Field("object_id", "object_id", "ObjectId"),
                  Field("name", "my-name", "String"),
                  Field("width", "width", "Number")>>,
     rest |-> TRUE]
Shapes ==
    {CustomShape, ShapeWithType, ShapeWithId, ShapeWithRest, ShapeWithAll}

\* Option<i64>, the type of an object_id field
None == [type |-> "None", n |-> 0, s |-> ""]
Some(n) == [type |-> "Some", n |-> n, s |-> ""]

\* number_accessor, string_accessor (over base_accessor) and
\* object_id_accessor: the field's value, or the ConversionError `?` returns
accessor(kind, field_name, object) ==
    IF kind = "ObjectId"
    THEN IF "object_id" \notin DOMAIN object THEN [ok |-> TRUE, value |-> None]
         ELSE IF object["object_id"].type # "Number"
         THEN [ok |-> FALSE,
               err |-> <<"FieldWrongType", "object_id", "number">>]
         ELSE [ok |-> TRUE, value |-> Some(object["object_id"].n)]
    ELSE IF field_name \notin DOMAIN object
    THEN [ok |-> FALSE, err |-> <<"FieldMissing", field_name>>]
    ELSE IF object[field_name].type # kind
    THEN [ok |-> FALSE,
          err |-> <<"FieldWrongType", field_name,
                    IF kind = "Number" THEN "number" ELSE "string">>]
    ELSE [ok |-> TRUE, value |-> object[field_name]]

\* the struct expression of try_from: the fields' accessors in declaration
\* order, then the rest field, which takes the entries whose key is not a
\* declared field's name
struct_from(shape, object) ==
    LET failing == {i \in 1..Len(shape.fields) :
                        ~accessor(shape.fields[i].kind, shape.fields[i].name,
                                  object).ok}
        field_names == {shape.fields[i].name : i \in 1..Len(shape.fields)}
    IN  IF failing # {}
        THEN LET first == CHOOSE i \in failing : \A j \in failing : i <= j
             IN  accessor(shape.fields[first].kind, shape.fields[first].name,
                          object)
        ELSE [ok |-> TRUE,
              value |->
                [fields |->
                    [ident \in {shape.fields[i].ident : i \in 1..Len(shape.fields)} |->
                        LET f == CHOOSE f \in {shape.fields[i] : i \in 1..Len(shape.fields)} :
                                    f.ident = ident
                        IN  accessor(f.kind, f.name, object).value],
                 rest |->
                    IF shape.rest
                    THEN [k \in (DOMAIN object) \ field_names |-> object[k]]
                    ELSE EmptyObject]]

\* the fixed-field blocks of try_from, from the i-th on, then the struct
RECURSIVE fixed_from(_, _, _)
fixed_from(shape, object, i) ==
    IF i > Len(shape.fixed) THEN struct_from(shape, object)
    ELSE LET f == shape.fixed[i]
             value == accessor(f.value.type, f.name, object)
         IN  IF ~value.ok THEN value
             ELSE IF value.value # f.value
             THEN [ok |-> FALSE,
                   err |-> <<"FixedFieldWrongValue", f.name, f.value,
                             value.value>>]
             ELSE fixed_from(shape, object, i + 1)

\* a conversion that builds the struct before it looks at the fixed fields
ObjectShape_try_from_struct_first(shape, object) ==
    IF ~struct_from(shape, object).ok THEN struct_from(shape, object)
    ELSE fixed_from(shape, object, 1)

\* the derived TryFrom<Object>::try_from
ObjectShape_try_from(shape, object) == fixed_from(shape, object, 1)

\* the derived Into<Object>::into: the fixed fields, then each field's
\* inserter in declaration order, then result.extend(rest)
RECURSIVE field_inserters(_, _, _, _)
field_inserters(shape, struct, result, i) ==
    IF i > Len(shape.fields) THEN result
    ELSE LET f == shape.fields[i]
             v == struct.fields[f.ident]
         IN  field_inserters(shape, struct,
                IF f.kind = "ObjectId"
                THEN IF v # None THEN insert(result, "object_id", Number(v.n))
                     ELSE result
                ELSE insert(result, f.name, v),
                i + 1)
ObjectShape_into(shape, struct) ==
    LET fixed == [k \in {shape.fixed[i].name : i \in 1..Len(shape.fixed)} |->
                    (CHOOSE f \in {shape.fixed[i] : i \in 1..Len(shape.fixed)} :
                        f.name = k).value]
        result == field_inserters(shape, struct, fixed, 1)
    IN  IF shape.rest
        THEN [k \in (DOMAIN result) \cup (DOMAIN struct.rest) |->
                IF k \in DOMAIN struct.rest THEN struct.rest[k] ELSE result[k]]
        ELSE result

\* the objects the model converts: under each of the names the shapes use,
\* and one more, nothing or one of these values
ShapeKeys == {"my-name", "width", "foo", "type", "object_id", "extra"}
ShapeValues == {Number(1), Number(2), String("shape")}
Absent == [type |-> "Absent", n |-> 0, s |-> ""]
ShapeObjects ==
    {[k \in {k \in ShapeKeys : f[k] # Absent} |-> f[k]] :
        f \in [ShapeKeys -> ShapeValues \cup {Absent}]}

\* the values of a shape the model converts
RestObjects ==
    {EmptyObject, [extra |-> Number(1)], [extra |-> String("shape")]}
Structs(shape) ==
    LET idents == {shape.fields[i].ident : i \in 1..Len(shape.fields)}
        kind(ident) ==
            (CHOOSE f \in {shape.fields[i] : i \in 1..Len(shape.fields)} :
                f.ident = ident).kind
        typed == {fields \in [idents -> {None, Some(1), Number(1), Number(2),
                                         String("shape"), String("a")}] :
                    \A ident \in idents :
                        IF kind(ident) = "ObjectId"
                        THEN fields[ident] \in {None, Some(1)}
                        ELSE fields[ident].type = kind(ident)}
    IN  {[fields |-> fields, rest |-> rest] :
            fields \in typed,
            rest \in IF shape.rest THEN RestObjects ELSE {EmptyObject}}

\* the caller holds an Object to convert to a shape, or a value of a shape
InitShape ==
    /\ conn = EmptyDatabase
    /\ transaction = <<>>
    /\ cached = <<>>
    /\ captured = <<>>
    /\ history = <<>>
    /\ assigned = 0
    /\ added = 0
    /\ \E shape \in Shapes :
        \/ \E object \in ShapeObjects :
            returned = [op |-> "object", shape |-> shape, object |-> object]
        \/ \E struct \in Structs(shape) :
            returned = [op |-> "struct", shape |-> shape, struct |-> struct]
    /\ ncommits = 0
    /\ opening = <<>>

\* T::try_from(object)
TryFrom ==
    /\ returned.op = "object"
    /\ returned' = [op |-> "try_from", shape |-> returned.shape,
                    object |-> returned.object,
                    result |-> ObjectShape_try_from(returned.shape,
                                                    returned.object)]
    /\ UNCHANGED <<conn, transaction, cached, captured, history, assigned,
                   added, ncommits, opening>>

\* let object: Object = t.into()
Into ==
    /\ returned.op = "struct"
    /\ returned' = [op |-> "into", shape |-> returned.shape,
                    struct |-> returned.struct,
                    object |-> ObjectShape_into(returned.shape,
                                                returned.struct)]
    /\ UNCHANGED <<conn, transaction, cached, captured, history, assigned,
                   added, ncommits, opening>>

\* T::try_from(object) on the Object that into() gave
TryFromInto ==
    /\ returned.op = "into"
    /\ returned' = [op |-> "round_trip", shape |-> returned.shape,
                    struct |-> returned.struct, object |-> returned.object,
                    result |-> ObjectShape_try_from(returned.shape,
                                                    returned.object)]
    /\ UNCHANGED <<conn, transaction, cached, captured, history, assigned,
                   added, ncommits, opening>>

NextShape ==
    \/ TryFrom
    \/ Into
    \/ TryFromInto

SpecShape == InitShape /\ [][NextShape]_vars

\* ------------------------------------------------------------ Store::open
\* the statements of the migration scripts, by what they do to the schema,
\* which is the set of <<table, column>> the database file holds
CreateTable(table, columns) ==
    [statement |-> "CREATE TABLE", table |-> table, columns |-> columns]
AddColumn(table, column) ==
    [statement |-> "ALTER TABLE", table |-> table, columns |-> {column}]

\* `updates` in Store::upgrade_if_needed
updates ==
    << <<CreateTable("objects", {"object_id", "properties"})>>,
       <<CreateTable("object_changes",
                     {"serial", "timestamp", "object_id", "action", "previous"}),
         CreateTable("checkpoints", {"checkpoint_id", "timestamp", "serial"})>>,
       <<AddColumn("checkpoints", "description")>> >>

\* the schema of a store that is up to date
Schema ==
    {<<"objects", c>> : c \in {"object_id", "properties"}}
    \cup {<<"object_changes", c>> :
            c \in {"serial", "timestamp", "object_id", "action", "previous"}}
    \cup {<<"checkpoints", c>> :
            c \in {"checkpoint_id", "timestamp", "serial", "description"}}

\* SQLite running one statement of a script, in autocommit: CREATE TABLE
\* fails when the table exists, ALTER TABLE .. ADD when the table does not
\* exist or already has the column
execute(schema, st) ==
    LET tables == {c[1] : c \in schema}
        added_columns == {<<st.table, c>> : c \in st.columns}
    IN  IF st.statement = "CREATE TABLE"
        THEN IF st.table \in tables
             THEN [ok |-> FALSE, schema |-> schema]
             ELSE [ok |-> TRUE, schema |-> schema \cup added_columns]
        ELSE IF st.table \notin tables \/ added_columns \cap schema # {}
             THEN [ok |-> FALSE, schema |-> schema]
             ELSE [ok |-> TRUE, schema |-> schema \cup added_columns]

\* a database file SQLite has just created
NewDatabase == [user_version |-> 0, schema |-> {}, journal_mode |-> "delete"]

InitOpen ==
    /\ conn = NewDatabase
    /\ transaction = <<>>
    /\ cached = <<>>
    /\ captured = <<>>
    /\ history = <<>>
    /\ assigned = 0
    /\ added = 0
    /\ returned = [op |-> "new"]
    /\ ncommits = 0
    /\ opening = <<>>

\* Store::open is called: Connection::open
Open ==
    /\ opening = <<>>
    /\ opening' = <<[at |-> "journal_mode", version |-> 0, statement |-> 0,
                     from |-> 0, ran |-> 0]>>
    /\ UNCHANGED <<conn, transaction, cached, captured, history, assigned,
                   added, returned, ncommits>>

\* pragma_update journal_mode = WAL, then the JSON1 check (no effect)
JournalMode ==
    /\ opening # <<>> /\ opening[1].at = "journal_mode"
    /\ conn' = [conn EXCEPT !.journal_mode = "wal"]
    /\ opening' = <<[opening[1] EXCEPT !.at = "user_version"]>>
    /\ UNCHANGED <<transaction, cached, captured, history, assigned, added,
                   returned, ncommits>>

\* upgrade_if_needed reads user_version; the loop skips that many scripts
ReadUserVersion ==
    /\ opening # <<>> /\ opening[1].at = "user_version"
    /\ opening' =
        <<[opening[1] EXCEPT
            !.version = conn.user_version,
            !.from = conn.user_version,
            !.statement = 1,
            !.at = IF conn.user_version >= Len(updates) THEN "regexp"
                   ELSE "execute_batch"]>>
    /\ UNCHANGED <<conn, transaction, cached, captured, history, assigned,
                   added, returned, ncommits>>

\* execute_batch(update) runs the next statement of the script; an error
\* ends the batch and, through `?`, open
ExecuteBatch ==
    /\ opening # <<>> /\ opening[1].at = "execute_batch"
    /\ LET o == opening[1]
           script == updates[o.version + 1]
           r == execute(conn.schema, script[o.statement])
       IN  IF r.ok
           THEN /\ conn' = [conn EXCEPT !.schema = r.schema]
                /\ opening' =
                    <<[o EXCEPT
                        !.ran = o.ran + 1,
                        !.statement = IF o.statement < Len(script)
                                      THEN o.statement + 1 ELSE 1,
                        !.at = IF o.statement < Len(script)
                               THEN "execute_batch" ELSE "pragma_update"]>>
                /\ UNCHANGED returned
           ELSE /\ opening' = <<>>
                /\ returned' = [op |-> "open", value |-> "Err",
                                from |-> o.from, ran |-> o.ran]
                /\ UNCHANGED conn
    /\ UNCHANGED <<transaction, cached, captured, history, assigned, added,
                   ncommits>>

\* pragma_update user_version = version + 1, and the loop goes on
PragmaUpdate ==
    /\ opening # <<>> /\ opening[1].at = "pragma_update"
    /\ conn' = [conn EXCEPT !.user_version = opening[1].version + 1]
    /\ opening' =
        <<[opening[1] EXCEPT
            !.version = opening[1].version + 1,
            !.at = IF opening[1].version + 1 >= Len(updates) THEN "regexp"
                   ELSE "execute_batch"]>>
    /\ UNCHANGED <<transaction, cached, captured, history, assigned, added,
                   returned, ncommits>>

\* add_regexp_function, and open returns Ok(store)
AddRegexpFunction ==
    /\ opening # <<>> /\ opening[1].at = "regexp"
    /\ opening' = <<>>
    /\ returned' = [op |-> "open", value |-> "Ok",
                    from |-> opening[1].from, ran |-> opening[1].ran]
    /\ UNCHANGED <<conn, transaction, cached, captured, history, assigned,
                   added, ncommits>>

\* the process dies during open: what the statements run so far did stays
\* in the file, each having committed on its own
Crash ==
    /\ opening # <<>>
    /\ opening' = <<>>
    /\ returned' = [op |-> "crash", from |-> opening[1].from,
                    ran |-> opening[1].ran]
    /\ UNCHANGED <<conn, transaction, cached, captured, history, assigned,
                   added, ncommits>>

NextOpen ==
    \/ Open
    \/ JournalMode
    \/ ReadUserVersion
    \/ ExecuteBatch
    \/ PragmaUpdate
    \/ AddRegexpFunction
    \/ Crash

SpecOpen == InitOpen /\ [][NextOpen]_vars

\* ------------------------------------------------ a mapping that can fail
\* CachedMapping with a mapping function f that returns Err for some objects.
\* f is the set of object ids it rejects; the CachedMapping keeps it.

Mappings == SUBSET (1..MaxObjects)

\* CachedMapping::refresh: self.objects is assigned only when every object
\* was mapped
CachedMapping_refresh(cache, db) ==
    LET read == iter(db, cache.query)
    IN  IF \E k \in DOMAIN read : k \in cache.f
        THEN [ok |-> FALSE, cache |-> cache]
        ELSE [ok |-> TRUE, cache |-> [cache EXCEPT !.objects = read]]

\* CachedMapping::new
CachedMapping_new(db, query, f) ==
    LET id0 == last_checkpoint_id(db)
    IN  IF ~id0.ok THEN [ok |-> FALSE, cache |-> <<>>]
        ELSE LET r == CachedMapping_refresh(
                        [fetched_at_checkpoint |-> id0.value,
                         query |-> query,
                         objects |-> EmptyObject,
                         f |-> f], db)
             IN  [ok |-> r.ok, cache |-> IF r.ok THEN <<r.cache>> ELSE <<>>]

\* CachedMapping::refresh_if_needed
CachedMapping_refresh_if_needed(cache, db) ==
    LET v == valid(cache, db)
    IN  IF ~v.ok THEN [ok |-> FALSE, cache |-> cache]
        ELSE IF v.value THEN [ok |-> TRUE, cache |-> cache]
        ELSE LET id0 == last_checkpoint_id(db)
             IN  IF ~id0.ok THEN [ok |-> FALSE, cache |-> cache]
                 ELSE CachedMapping_refresh(
                        [cache EXCEPT !.fetched_at_checkpoint = id0.value], db)

\* Store::cached_map(query, f)
CachedMapWith ==
    /\ \E query \in CacheQueries, f \in Mappings :
        LET r == CachedMapping_new(conn, query, f)
        IN  /\ cached' = IF r.ok THEN r.cache ELSE cached
            /\ returned' = [op |-> "cached_map", ok |-> r.ok]
    /\ UNCHANGED <<conn, transaction, captured, history, assigned, added,
                   ncommits, opening>>

\* cache.refresh_if_needed(store)
RefreshIfNeededWith ==
    /\ cached # <<>>
    /\ LET r == CachedMapping_refresh_if_needed(cached[1], conn)
       IN  /\ cached' = <<r.cache>>
           /\ returned' = [op |-> "refresh_if_needed", ok |-> r.ok,
                           before |-> cached[1]]
    /\ UNCHANGED <<conn, transaction, captured, history, assigned, added,
                   ncommits, opening>>

NextMapping ==
    \/ Checkpoint
    \/ Add
    \/ Delete
    \/ Commit
    \/ CachedMapWith
    \/ RefreshIfNeededWith

SpecMapping == Init /\ [][NextMapping]_vars

\* ------------------------------- PropLike over objects without the property
\* The regexp function is called for every row the statement visits, with
\* CAST(json_extract(properties, "$.name") AS TEXT) as its text, which is
\* NULL for an object that has no such property.

LikeTitles == {<<"a">>, <<"b">>, <<"a", " ", "b">>}
LikePatterns == {<<"a">>, <<"b">>, <<"*">>}
LikeObjects == {[title |-> String(t)] : t \in LikeTitles} \cup NewObjects

\* stepping "... FROM objects WHERE <clause>" for a PropLike query: the
\* statement fails when the function fails on a row
step_fails(db, query) ==
    /\ query.node = "PropLike"
    /\ \E k \in DOMAIN db.objects :
        ~regexp_function(like_to_sql_clause(query.name, query.pattern).params[1],
                         json_extract(db.objects[k], query.name)).ok

\* Collection::len
Collection_len(db, query) ==
    IF step_fails(db, query)
    THEN [ok |-> FALSE, err |-> "UserFunctionError", n |-> 0, value |-> 0]
    ELSE [ok |-> TRUE, err |-> "", n |-> 0, value |-> len(db, query)]

\* Collection::iter
Collection_iter(db, query) ==
    IF step_fails(db, query)
    THEN [ok |-> FALSE, err |-> "UserFunctionError", n |-> 0,
          value |-> EmptyObject]
    ELSE [ok |-> TRUE, err |-> "", n |-> 0, value |-> iter(db, query)]

\* Collection::one
Collection_one(db, query) ==
    LET results == Collection_iter(db, query)
        n == Collection_len(db, query)
    IN  IF ~results.ok THEN results
        ELSE IF ~n.ok THEN [n EXCEPT !.value = EmptyObject]
        ELSE IF n.value > 1
        THEN [ok |-> FALSE, err |-> "NotOne", n |-> n.value,
              value |-> EmptyObject]
        ELSE IF DOMAIN results.value = {}
        THEN [ok |-> FALSE, err |-> "NotOne", n |-> 0, value |-> EmptyObject]
        ELSE [ok |-> TRUE, err |-> "", n |-> 0,
              value |-> results.value[CHOOSE k \in DOMAIN results.value :
                            \A j \in DOMAIN results.value : k <= j]]

\* a store populated in one checkpoint with objects that have a title and
\* objects that have none, and store.query(Q.like("title", pattern))
InitLikeStore ==
    /\ \E objects \in UNION {[1..n -> LikeObjects] : n \in 0..MaxObjects} :
        /\ conn = create_checkpoint(populate(EmptyDatabase, objects),
                                    DescriptionOf[1])
        /\ added = Len(objects)
    /\ transaction = <<>>
    /\ cached = <<>>
    /\ captured = <<>>
    /\ history = <<[description |-> DescriptionOf[1], before |-> EmptyDatabase]>>
    /\ assigned = 1
    /\ \E pattern \in LikePatterns :
        returned = [op |-> "query", query |-> like("title", pattern)]
    /\ ncommits = 1
    /\ opening = <<>>

\* found.len()
LikeLen ==
    /\ returned' = [op |-> "len", query |-> returned.query,
                    result |-> Collection_len(conn, returned.query)]
    /\ UNCHANGED <<conn, transaction, cached, captured, history, assigned,
                   added, ncommits, opening>>

\* found.iter()
LikeIter ==
    /\ returned' = [op |-> "iter", query |-> returned.query,
                    result |-> Collection_iter(conn, returned.query)]
    /\ UNCHANGED <<conn, transaction, cached, captured, history, assigned,
                   added, ncommits, opening>>

\* found.one()
LikeOne ==
    /\ returned' = [op |-> "one", query |-> returned.query,
                    result |-> Collection_one(conn, returned.query)]
    /\ UNCHANGED <<conn, transaction, cached, captured, history, assigned,
                   added, ncommits, opening>>

NextLikeStore ==
    \/ LikeLen
    \/ LikeIter
    \/ LikeOne

SpecLikeStore == InitLikeStore /\ [][NextLikeStore]_vars

\* ------------------------------------------------------ to_sql_clause
\* QueryNode::to_sql_clause on trees built from the enum directly.

ClauseQueries ==
    LET Children ==
            {Empty, id(1), equal("name", Number(1)),
             like("title", <<"a", "*">>),
             And(<<>>), And(<<equal("name", String("a")), id(2)>>)}
    IN  {And(children) :
            children \in UNION {[1..n -> Children] : n \in 0..MaxCriteria}}
        \cup Children
        \cup {equal(QuotedName, String("a"))}

\* a new store, and a QueryNode the caller has built
InitClause ==
    /\ conn = EmptyDatabase
    /\ transaction = <<>>
    /\ cached = <<>>
    /\ captured = <<>>
    /\ history = <<>>
    /\ assigned = 0
    /\ added = 0
    /\ \E query \in ClauseQueries : returned = [op |-> "query", query |-> query]
    /\ ncommits = 0
    /\ opening = <<>>

\* query.to_sql_clause()
ToSqlClause ==
    /\ returned.op = "query"
    /\ returned' = [op |-> "to_sql_clause", query |-> returned.query,
                    clause |-> where_clause(returned.query),
                    params |-> where_params(returned.query)]
    /\ UNCHANGED <<conn, transaction, cached, captured, history, assigned,
                   added, ncommits, opening>>

NextClause ==
    \/ ToSqlClause

SpecClause == InitClause /\ [][NextClause]_vars

\* ------------------------------------------- PropValue from serde_json::Value
\* A serde_json number is a u64 (PosInt), a negative i64 (NegInt) or an f64
\* (Float).  The 64 bits of an integer are four 16-bit limbs, most
\* significant first, so that the width is the real one.

Limb == 65536
JsonIntegers ==
    {<<l3, l2, l1, l0>> : l3 \in {0, 32767, 32768, Limb - 1},
                          l2 \in {0, Limb - 1},
                          l1 \in {0, Limb - 1},
                          l0 \in {0, Limb - 1}}
JsonValues ==
    {[json |-> "Null", bits |-> <<>>, s |-> ""]}
    \cup {[json |-> "Bool", bits |-> <<>>, s |-> b] : b \in {"true", "false"}}
    \cup {[json |-> "PosInt", bits |-> n, s |-> ""] : n \in JsonIntegers}
    \cup {[json |-> "NegInt", bits |-> n, s |-> ""] :
            n \in {m \in JsonIntegers : m[1] >= 32768}}
    \cup {[json |-> "Float", bits |-> <<>>, s |-> f] : f \in {"0.5", "1.0", "1e19"}}
    \cup {[json |-> "String", bits |-> <<>>, s |-> t] : t \in {"", "a", "1"}}
    \cup {[json |-> "Array", bits |-> <<>>, s |-> a] : a \in {"[]", "[1]"}}
    \cup {[json |-> "Object", bits |-> <<>>, s |-> "{}"]}

\* serde_json::Number::as_i64: a PosInt above i64::MAX and a Float have none
as_i64(x) ==
    CASE x.json = "PosInt" ->
            IF x.bits[1] < 32768 THEN [some |-> TRUE, bits |-> x.bits]
            ELSE [some |-> FALSE, bits |-> <<>>]
      [] x.json = "NegInt" -> [some |-> TRUE, bits |-> x.bits]
      [] x.json = "Float" -> [some |-> FALSE, bits |-> <<>>]

\* impl From<serde_json::Value> for PropValue; outcome is "value" for a
\* returned PropValue and "panic" for the panic! arm and the unwrap of None
PropValue_from(x) ==
    CASE x.json = "String" ->
            [outcome |-> "value", type |-> "String", bits |-> <<>>, s |-> x.s]
      [] x.json \in {"PosInt", "NegInt", "Float"} ->
            IF as_i64(x).some
            THEN [outcome |-> "value", type |-> "Number",
                  bits |-> as_i64(x).bits, s |-> ""]
            ELSE [outcome |-> "panic", type |-> "", bits |-> <<>>, s |-> ""]
      [] OTHER ->
            [outcome |-> "panic", type |-> "", bits |-> <<>>, s |-> ""]

\* a serde_json::Value the caller holds
InitJson ==
    /\ conn = EmptyDatabase
    /\ transaction = <<>>
    /\ cached = <<>>
    /\ captured = <<>>
    /\ history = <<>>
    /\ assigned = 0
    /\ added = 0
    /\ \E x \in JsonValues : returned = [op |-> "json", x |-> x]
    /\ ncommits = 0
    /\ opening = <<>>

\* PropValue::from(x)
From ==
    /\ returned.op = "json"
    /\ returned' = [op |-> "from", x |-> returned.x,
                    result |-> PropValue_from(returned.x)]
    /\ UNCHANGED <<conn, transaction, cached, captured, history, assigned,
                   added, ncommits, opening>>

NextJson ==
    \/ From

SpecJson == InitJson /\ [][NextJson]_vars

\* ------------------------------------------------------------ properties
\* C1: the undo() that undoes a checkpoint leaves the objects table as it was
\* immediately before that checkpoint was committed: the same object_ids and,
\* for each, the same stored properties.
C1_UndoRestoresObjects ==
    (returned.op = "undo" /\ returned.value \in Descriptions
        /\ returned.undone # <<>>)
    => conn.objects = returned.undone[1].before.objects

\* C2: undo() undoes the most recently committed checkpoint that has not been
\* undone and returns its description; it returns None once every commit has
\* been undone.
C2_UndoReturnsNewestDescription ==
    returned.op = "undo"
    => returned.value = IF returned.undone = <<>> THEN "None"
                        ELSE returned.undone[1].description

\* C3: after a Checkpoint is dropped without commit(), also after one of its
\* calls returned an error, objects, change log and checkpoint table are as
\* they were when the checkpoint was opened, and so is last_checkpoint_id().
C3_DropDiscardsChanges ==
    returned.op = "drop"
    => /\ conn.objects = returned.before.objects
       /\ conn.object_changes = returned.before.object_changes
       /\ conn.checkpoints = returned.before.checkpoints
       /\ last_checkpoint_id(conn) = last_checkpoint_id(returned.before)

\* a checkpoint that held a row without its change entry (add failed after
\* the INSERT) has been dropped
C3_Witness ==
    /\ returned.op = "drop"
    /\ \E k \in DOMAIN returned.discarded.objects :
        /\ k \notin DOMAIN returned.before.objects
        /\ \A c \in returned.discarded.object_changes : c.object_id # k

\* C4: undo() on a store without checkpoint rows returns None and leaves
\* objects, change log and checkpoint table unchanged.
C4_UndoOnEmptyStack ==
    [][(transaction = <<>> /\ conn.checkpoints = {} /\ returned'.op = "undo")
        => (returned'.value = "None" /\ conn' = conn)]_vars

\* undo() returned None on a store that holds objects and change entries but
\* no checkpoint row
C4_Witness ==
    /\ returned.op = "undo"
    /\ returned.value = "None"
    /\ conn.checkpoints = {}
    /\ conn.object_changes # {}
    /\ DOMAIN conn.objects # {}

\* C5: once a checkpoint has been committed after a CachedMapping was built or
\* last refreshed, valid(store) returns false.
C5_CommitInvalidatesCache ==
    (cached # <<>> /\ cached[1].stale)
    => valid(cached[1], conn) = [ok |-> TRUE, value |-> FALSE]

C7_CapturedIdExpires ==
    (captured # <<>> /\ captured[1].changes = 1)
    => modified_since(conn, captured[1].id) = [ok |-> TRUE, value |-> TRUE]

\* C8: last_checkpoint_id() returns Ok(id of the newest checkpoint row), and
\* Ok(0) when the checkpoint table is empty.
C8_LastCheckpointIdTotal ==
    returned.op = "last_checkpoint_id"
    => /\ returned.ok
       /\ returned.value = Max({c.checkpoint_id : c \in conn.checkpoints})

\* C9: with no open transaction, no change entry has a serial greater than the
\* newest checkpoint's serial, and every change entry lies in the range
\* (prev.serial, this.serial] of exactly one checkpoint row.
C9_ChangesBelongToOneCheckpoint ==
    LET PrevSerial(cp) ==
            Max({d.serial : d \in {e \in conn.checkpoints :
                                    e.checkpoint_id < cp.checkpoint_id}})
    IN  transaction = <<>>
        => \A c \in conn.object_changes :
            /\ c.serial <= Max({cp.serial : cp \in conn.checkpoints})
            /\ Cardinality({cp \in conn.checkpoints :
                    PrevSerial(cp) < c.serial /\ c.serial <= cp.serial}) = 1

\* C10: checkpoint rows are strictly ordered by serial and by checkpoint_id and
\* the two orders agree; no two checkpoints share a serial.
C10_CheckpointOrdersAgree ==
    \A a, b \in conn.checkpoints :
        a # b => ((a.checkpoint_id < b.checkpoint_id) <=> (a.serial < b.serial))

\* C11: every object_id add() returns is positive and greater than every
\* object_id an earlier add() returned, whatever checkpoints were committed,
\* dropped or undone in between.
C11_ObjectIdsNeverReused ==
    returned.op = "add"
    => (returned.value > 0 /\ returned.value > returned.added_before)

\* C12: with no open transaction, the number of objects store.all() yields is
\* the number of Add entries minus the number of Delete entries in the
\* change log.
C12_ObjectCountMatchesLog ==
    transaction = <<>>
    => len(conn, Empty) =
          Cardinality({c \in conn.object_changes : c.action = "add"})
        - Cardinality({c \in conn.object_changes : c.action = "delete"})

\* a committed store whose log holds a Delete entry and an Add entry and
\* whose objects table holds no object
C12_Witness ==
    /\ transaction = <<>>
    /\ \E c \in conn.object_changes : c.action = "delete"
    /\ \E c \in conn.object_changes : c.action = "add"
    /\ conn.checkpoints # {}
    /\ len(conn, Empty) = 0

\* C13: after add(o) returned k, for an o without object_id, inside the
\* checkpoint and after its commit, query(Q.id(k)).one() returns o extended
\* with object_id = k and query(Q.id(k)).len() is 1.
C13_AddedObjectIsFoundById ==
    /\ [](returned.op = "add"
            => /\ one(conn, id(returned.value)) =
                    [ok |-> TRUE,
                     value |-> insert(returned.object, "object_id",
                                      Number(returned.value))]
               /\ len(conn, id(returned.value)) = 1)
    /\ [][(returned.op = "add" /\ returned'.op = "commit")
            => /\ one(conn', id(returned.value)) =
                    [ok |-> TRUE,
                     value |-> insert(returned.object, "object_id",
                                      Number(returned.value))]
               /\ len(conn', id(returned.value)) = 1]_vars

\* add() returned 2 for an object whose properties equal those of object 1
C13_Witness ==
    /\ returned.op = "add"
    /\ returned.value = 2
    /\ "object_id" \notin DOMAIN returned.object
    /\ 1 \in DOMAIN conn.objects
    /\ conn.objects[1] = conn.objects[2]

\* C14: in every reachable state no stored properties blob has the key
\* object_id: not after add, set or delete, and not after undo() put back a
\* deleted or updated object.
C14_BlobsHaveNoObjectId ==
    \A k \in DOMAIN conn.objects :
        json_extract(conn.objects[k], "object_id") = <<>>

\* C15: undo() is all-or-nothing.  When it fails (a statement returns an
\* error or an assertion panics) objects, change log and checkpoint table are
\* as before the call.  When it succeeds the newest checkpoint's row is gone,
\* every change entry of that checkpoint is gone from the log, and every
\* object touched by a removed entry is as the oldest removed entry says: gone
\* if that entry is an Add, holding the recorded previous properties if it is
\* a Delete or an Update; other objects are untouched.
C15_UndoIsAllOrNothing ==
    [][returned'.op = "undo"
        => IF returned'.value \in Descriptions
           THEN LET newest == CHOOSE c \in conn.checkpoints :
                        \A d \in conn.checkpoints :
                            d.checkpoint_id <= c.checkpoint_id
                    prev == Max({d.serial : d \in conn.checkpoints \ {newest}})
                    its == {c \in conn.object_changes :
                                prev < c.serial /\ c.serial <= newest.serial}
                    removed == conn.object_changes \ conn'.object_changes
                    touched == {c.object_id : c \in removed}
                    oldest(k) == CHOOSE c \in removed :
                        /\ c.object_id = k
                        /\ \A d \in removed :
                                d.object_id = k => c.serial <= d.serial
                IN  /\ newest \notin conn'.checkpoints
                    /\ conn'.checkpoints \subseteq conn.checkpoints
                    /\ conn'.object_changes \subseteq conn.object_changes
                    /\ its \subseteq removed
                    /\ \A k \in touched :
                        IF oldest(k).action = "add"
                        THEN k \notin DOMAIN conn'.objects
                        ELSE /\ k \in DOMAIN conn'.objects
                             /\ conn'.objects[k] = oldest(k).previous
                    /\ \A k \in (DOMAIN conn.objects \cup DOMAIN conn'.objects)
                                \ touched :
                        /\ k \in DOMAIN conn.objects
                        /\ k \in DOMAIN conn'.objects
                        /\ conn'.objects[k] = conn.objects[k]
           ELSE conn' = conn]_vars

\* undo() returned an error on a store whose only checkpoint recorded two or
\* more changes, so the failure may have come after some were replayed
C15_Witness ==
    /\ returned.op = "undo"
    /\ returned.value = "Err"
    /\ Cardinality(conn.checkpoints) = 1
    /\ \A c \in conn.checkpoints : c.serial >= 2
    /\ Cardinality(conn.object_changes) >= 2

\* C16: from its construction until the next refresh_if_needed(), whatever is
\* added, changed, deleted, committed, dropped or undone in the store, a
\* CachedMapping's iter(), len() and exists() return what they returned
\* before.
C16_CacheIsFrozenBetweenRefreshes ==
    [][(cached # <<>>
            /\ returned'.op \notin {"cached_map", "refresh_if_needed"})
        => /\ cached' # <<>>
           /\ CachedMapping_iter(cached'[1]) = CachedMapping_iter(cached[1])
           /\ CachedMapping_len(cached'[1]) = CachedMapping_len(cached[1])
           /\ CachedMapping_exists(cached'[1]) = CachedMapping_exists(cached[1])]_vars

\* a commit has just changed what the cached query matches, and the
\* CachedMapping still holds what it fetched
C16_Witness ==
    /\ cached # <<>>
    /\ returned.op = "commit"
    /\ CachedMapping_exists(cached[1])
    /\ CachedMapping_iter(cached[1]) # iter(conn, cached[1].query)

\* C17: refresh_if_needed(store) changes neither the captured checkpoint id
\* nor the contents when valid(store) is true; when valid(store) is false and
\* the call succeeds, afterwards the captured id is last_checkpoint_id(), the
\* contents are the current result of the query, and valid(store) is true.
C17_RefreshIfNeeded ==
    [][(cached # <<>> /\ returned'.op = "refresh_if_needed")
        => LET v == valid(cached[1], conn)
           IN  /\ (v.ok /\ v.value)
                    => /\ cached'[1].fetched_at_checkpoint =
                            cached[1].fetched_at_checkpoint
                       /\ cached'[1].objects = cached[1].objects
               /\ (v.ok /\ ~v.value /\ returned'.ok)
                    => /\ last_checkpoint_id(conn') =
                            [ok |-> TRUE,
                             value |-> cached'[1].fetched_at_checkpoint]
                       /\ cached'[1].objects = iter(conn', cached'[1].query)
                       /\ valid(cached'[1], conn') =
                            [ok |-> TRUE, value |-> TRUE]]_vars

\* refresh_if_needed() has just replaced contents that no longer matched the
\* store: an object the cache held is gone from the refreshed contents
C17_Witness ==
    /\ cached # <<>>
    /\ returned.op = "refresh_if_needed"
    /\ returned.ok
    /\ "refreshed" \in DOMAIN returned
    /\ returned.refreshed
    /\ cached[1].objects = iter(conn, cached[1].query)
    /\ DOMAIN cached[1].objects # returned.held

\* C18: query(q).set(patch) with a non-empty patch returns the number of
\* objects that matched q before the call; afterwards each of them is read
\* with the same object_id and with its old properties overridden by the
\* patch's, and every object that did not match q is stored unchanged.
C18_SetMergesPatch ==
    [][(returned'.op = "set" /\ Cardinality(DOMAIN returned'.fields) # 0)
        => LET q == returned'.query
               patch == returned'.fields
               before == iter(conn, q)
           IN  /\ returned'.value = len(conn, q)
               /\ DOMAIN conn'.objects = DOMAIN conn.objects
               /\ \A k \in DOMAIN before :
                    one(conn', id(k)) =
                        [ok |-> TRUE,
                         value |-> [key \in (DOMAIN before[k]) \cup DOMAIN patch |->
                                        IF key \in DOMAIN patch THEN patch[key]
                                        ELSE before[k][key]]]
               /\ \A k \in (DOMAIN conn.objects) \ DOMAIN before :
                    conn'.objects[k] = conn.objects[k]]_vars

\* set() has just changed one of two stored objects: object 1, which had
\* name "a", now has the patch's name, and object 2 did not match
C18_Witness ==
    /\ returned.op = "set"
    /\ returned.value = 1
    /\ returned.query = equal("name", String("a"))
    /\ DOMAIN conn.objects = {1, 2}
    /\ \E c \in conn.object_changes :
        /\ c.action = "update"
        /\ c.object_id = 1
        /\ c.serial = Max({d.serial : d \in conn.object_changes})
    /\ from_str(conn.objects[1]) = returned.fields

\* C19: query(q).delete() returns the number of objects that matched q before
\* the call; afterwards query(Q.id(k)).exists() is false for each of them, and
\* every object that did not match q is stored unchanged.
C19_DeleteRemovesMatching ==
    [][returned'.op = "delete"
        => LET q == returned'.query
               before == Matching(conn, q)
           IN  /\ returned'.value = len(conn, q)
               /\ \A k \in before : ~(len(conn', id(k)) > 0)
               /\ \A k \in (DOMAIN conn.objects) \ before :
                    /\ k \in DOMAIN conn'.objects
                    /\ conn'.objects[k] = conn.objects[k]
               /\ DOMAIN conn'.objects \subseteq DOMAIN conn.objects]_vars

\* delete() has just removed object 1, which matched, and left object 2,
\* which did not
C19_Witness ==
    /\ returned.op = "delete"
    /\ returned.value = 1
    /\ returned.query = equal("name", String("a"))
    /\ DOMAIN conn.objects = {2}
    /\ \E c \in conn.object_changes :
        c.action = "delete" /\ c.object_id = 1

C21_ReadsSeePendingWrites ==
    (returned.op = "read" /\ transaction # <<>>)
    => LET q == returned.query
           begin == transaction[1]
           pending == conn.object_changes \ begin.object_changes
           ids(action) == {c.object_id : c \in {p \in pending : p.action = action}}
           live == ((DOMAIN begin.objects) \cup ids("add")) \ ids("delete")
           untouched == live \ (ids("add") \cup ids("update"))
       IN  /\ DOMAIN returned.all = live
           /\ \A k \in untouched : returned.all[k] = iter(begin, Empty)[k]
           /\ \A k \in ids("update") \cap live :
                \E c \in pending :
                    /\ c.action = "update" /\ c.object_id = k
                    /\ \A key \in DOMAIN from_str(c.previous) :
                            key \in DOMAIN returned.all[k]
           /\ returned.result =
                [k \in {j \in live : to_sql_clause(q, j, conn.objects[j])} |->
                    returned.all[k]]
           /\ returned.len = Cardinality(DOMAIN returned.result)

\* a read in an open checkpoint that has added an object, changed the name of
\* an object committed earlier and deleted nothing: the handle for
\* name = "a" no longer yields the changed object
C21_Witness ==
    /\ returned.op = "read"
    /\ transaction # <<>>
    /\ returned.query = equal("name", String("a"))
    /\ \E c \in conn.object_changes \ transaction[1].object_changes :
        /\ c.action = "update"
        /\ c.object_id \in DOMAIN iter(transaction[1], returned.query)
        /\ c.object_id \notin DOMAIN returned.result
    /\ \E c \in conn.object_changes \ transaction[1].object_changes :
        c.action = "add" /\ c.object_id \in DOMAIN returned.all

\* C22: the identity key is the one name object_id: QueryBuilder::id(n)
\* builds PropEqual{object_id, n}, and for every stored object with id k the
\* query PropEqual{object_id, k} matches exactly that object, which is read
\* with k under that same name.
C22_IdentityKeyIsOneName ==
    \A k \in DOMAIN conn.objects :
        /\ id(k) = PropEqual("object_id", Number(k))
        /\ DOMAIN iter(conn, PropEqual("object_id", Number(k))) = {k}
        /\ iter(conn, id(k))[k]["object_id"] = Number(k)

\* C23: a collection built from And with zero children behaves as one built
\* from Empty: len() and iter() on it succeed, with the count and the
\* objects of store.all().
C23_EmptyAndIsEmpty ==
    (returned.op \in {"len", "iter"} /\ returned.query = And(<<>>))
    => /\ returned.result.ok
       /\ returned.op = "len" => returned.result.value = len(conn, Empty)
       /\ returned.op = "iter" => returned.result.value = iter(conn, Empty)

\* C24: whatever point earlier opens crashed at, an open that runs to its
\* end resumes at the first migration not yet applied and returns Ok with
\* user_version 3 and the full schema; on a store that is up to date it
\* runs no migration statement.
C24_OpenResumesMigrations ==
    (returned.op = "open" /\ opening = <<>>)
    => /\ returned.value = "Ok"
       /\ conn.user_version = Len(updates)
       /\ conn.schema = Schema
       /\ returned.from = Len(updates) => returned.ran = 0

\* C25: PropLike compiles to the clause
\* CAST(json_extract(properties, "$.<name>") AS TEXT) REGEXP ? with one
\* parameter, the regex (?i) followed, for each run of non-space characters
\* of the pattern in turn, by \b, the run with every '*' replaced by \w* and
\* every other character escaped, and \b, with .*? between two runs.
C25_LikeCompilation ==
    returned.op = "like"
    => LET pattern == returned.pattern
           term(c) == IF c = "*" THEN "\\w*"
                      ELSE IF c = "." THEN "\\." ELSE c
           RECURSIVE scan(_, _, _)
           scan(i, in_word, seen) ==
                IF i > Len(pattern)
                THEN IF in_word THEN <<"\\b">> ELSE <<>>
                ELSE IF pattern[i] = " "
                THEN (IF in_word THEN <<"\\b">> ELSE <<>>)
                        \o scan(i + 1, FALSE, seen)
                ELSE (IF in_word THEN <<>>
                      ELSE (IF seen THEN <<".*?">> ELSE <<>>) \o <<"\\b">>)
                        \o <<term(pattern[i])>>
                        \o scan(i + 1, TRUE, TRUE)
       IN  /\ returned.compiled.clause =
                <<"CAST(json_extract(properties, \"$.", "title",
                  "\") AS TEXT) REGEXP ?">>
           /\ returned.compiled.params = << <<"(?i)">> \o scan(1, FALSE, FALSE) >>
           /\ pattern = <<"p", "h", "r", "*">>
                => returned.compiled.params[1] =
                    <<"(?i)", "\\b", "p", "h", "r", "\\w*", "\\b">>
           /\ pattern = <<"l", "o", "n", "*", " ", "*", "h", "r", "a", "s", "e">>
                => returned.compiled.params[1] =
                    <<"(?i)", "\\b", "l", "o", "n", "\\w*", "\\b", ".*?",
                      "\\b", "\\w*", "h", "r", "a", "s", "e", "\\b">>

\* a pattern with an empty token, an escaped character and a '*' has been
\* compiled
C25_Witness ==
    /\ returned.op = "like"
    /\ returned.pattern = <<" ", ".", "*">>
    /\ returned.compiled.params[1] =
        <<"(?i)", "\\b", "\\.", "\\w*", "\\b">>

\* C26: an object matches PropLike exactly when the words of the pattern occur
\* in the text of the property as whole words, in the order of the pattern,
\* with anything between them, compared without regard to case, a '*' in a
\* pattern word standing for zero or more word characters.
C26_LikeMatchesWordsInOrder ==
    (/\ returned.op = "like"
     /\ \A i \in 1..Len(returned.pattern) :
            returned.pattern[i] \in WordCharacters \cup {"*", " "})
    => LET text == from_str(conn.objects[1])["title"].s
           is_word(k) == k \in 1..Len(text) /\ text[k] \in WordCharacters
           words == SelectSeq(split(returned.pattern, " "),
                              LAMBDA word : word # <<>>)
           RECURSIVE stands_for(_, _)
           stands_for(word, t) ==
                IF word = <<>> THEN t = <<>>
                ELSE IF Head(word) = "*"
                THEN \E n \in 0..Len(t) :
                        stands_for(Tail(word), SubSeq(t, n + 1, Len(t)))
                ELSE /\ t # <<>>
                     /\ to_lowercase(Head(t)) = to_lowercase(Head(word))
                     /\ stands_for(Tail(word), Tail(t))
           whole_word(b, e) ==
                /\ is_word(b - 1) # is_word(b)
                /\ is_word(e - 1) # is_word(e)
                /\ \A k \in b..(e - 1) : is_word(k)
           RECURSIVE in_order(_, _)
           in_order(w, from) ==
                \/ w > Len(words)
                \/ \E b \in from..(Len(text) + 1) :
                    \E e \in b..(Len(text) + 1) :
                        /\ whole_word(b, e)
                        /\ stands_for(words[w], SubSeq(text, b, e - 1))
                        /\ in_order(w + 1, e)
       IN  (1 \in returned.found) <=> in_order(1, 1)

\* C27: build() yields Empty after no criterion, the criterion's node after
\* exactly one id/equal/like call, and after two or more calls an And whose
\* children are the calls' nodes in call order, none of them an And.
C27_BuildYieldsFlatAnd ==
    returned.op = "build"
    => LET n == Len(returned.calls)
       IN  /\ n = 0 => returned.value = Empty
           /\ n = 1 => returned.value = returned.calls[1]
           /\ n >= 2 =>
                /\ returned.value.node = "And"
                /\ Len(returned.value.children) = n
                /\ \A i \in 1..n :
                    /\ returned.value.children[i] = returned.calls[i]
                    /\ returned.value.children[i].node # "And"

\* Q.like(..).id(1).equal(..).build() has returned
C27_Witness ==
    /\ returned.op = "build"
    /\ Len(returned.calls) = 3
    /\ returned.calls[1].node = "PropLike"
    /\ returned.calls[2] = id(1)
    /\ returned.value = And(returned.calls)

\* C28: in every committed state the change-log entries of one object_id,
\* in serial order, are one Add, then Updates, then at most one Delete:
\* exactly one Add per object, which is its first entry, and no entry after
\* a Delete.
C28_ChangesOfAnObjectFormAChain ==
    transaction = <<>>
    => LET log == conn.object_changes
           ids == {c.object_id : c \in log} \cup DOMAIN conn.objects
           of(k) == {c \in log : c.object_id = k}
       IN  \A k \in ids :
            /\ Cardinality({c \in of(k) : c.action = "add"}) = 1
            /\ \A c \in of(k) :
                /\ c.action = "add" => \A d \in of(k) : d.serial >= c.serial
                /\ c.action = "delete" => \A d \in of(k) : d.serial <= c.serial
            /\ \A c, d \in of(k) : c.serial = d.serial => c = d

\* a committed log in which one object was added, updated and deleted
C28_Witness ==
    /\ transaction = <<>>
    /\ \E k \in {c.object_id : c \in conn.object_changes} :
        {c.action : c \in {d \in conn.object_changes : d.object_id = k}}
            = {"add", "update", "delete"}

\* C29: try_from looks at the fixed fields in their order and then at the
\* declared fields in theirs, and fails at the first one that is absent
\* (FieldMissing(name); an absent object_id is no failure and gives None), of
\* the other variant (FieldWrongType(name, expected)) or, for a fixed field,
\* of another value (FixedFieldWrongValue(name, expected, actual)); when none
\* is, it succeeds with the fields' values.
C29_ConversionErrors ==
    returned.op = "try_from"
    => LET shape == returned.shape
           object == returned.object
           checks ==
                [i \in 1..Len(shape.fixed) |->
                    [name |-> shape.fixed[i].name,
                     type |-> shape.fixed[i].value.type,
                     fixed |-> <<shape.fixed[i].value>>, ident |-> ""]]
                \o [i \in 1..Len(shape.fields) |->
                    [name |-> shape.fields[i].name,
                     type |-> IF shape.fields[i].kind = "ObjectId"
                              THEN "Number" ELSE shape.fields[i].kind,
                     fixed |-> <<>>, ident |-> shape.fields[i].ident]]
           expected(c) == IF c.type = "Number" THEN "number" ELSE "string"
           problem(c) ==
                IF c.name \notin DOMAIN object
                THEN IF c.name = "object_id" THEN <<>>
                     ELSE <<"FieldMissing", c.name>>
                ELSE IF object[c.name].type # c.type
                THEN <<"FieldWrongType", c.name, expected(c)>>
                ELSE IF c.fixed # <<>> /\ object[c.name] # c.fixed[1]
                THEN <<"FixedFieldWrongValue", c.name, c.fixed[1],
                       object[c.name]>>
                ELSE <<>>
           bad == {i \in 1..Len(checks) : problem(checks[i]) # <<>>}
       IN  IF bad = {}
           THEN /\ returned.result.ok
                /\ \A i \in 1..Len(shape.fields) :
                    LET f == shape.fields[i]
                        v == returned.result.value.fields[f.ident]
                    IN  IF f.kind = "ObjectId"
                        THEN IF "object_id" \in DOMAIN object
                             THEN v = Some(object["object_id"].n)
                             ELSE v = None
                        ELSE v = object[f.name]
           ELSE /\ ~returned.result.ok
                /\ \E i \in bad :
                    /\ \A j \in bad : i <= j
                    /\ returned.result.err = problem(checks[i])

\* a conversion that failed on a fixed field of another value although a
\* declared field was missing as well
C29_Witness ==
    /\ returned.op = "try_from"
    /\ returned.shape = ShapeWithAll
    /\ "width" \notin DOMAIN returned.object
    /\ "object_id" \notin DOMAIN returned.object
    /\ ~returned.result.ok
    /\ returned.result.err =
        <<"FixedFieldWrongValue", "foo", Number(1), Number(2)>>

\* C30: converting a value of a shape into an Object gives the fixed fields,
\* the declared fields (object_id only when Some) and the rest fields, and
\* nothing else, and converting that Object back gives the value again.
C30_ShapeRoundTrip ==
    returned.op = "round_trip"
    => LET shape == returned.shape
           struct == returned.struct
           object == returned.object
           fixed == {shape.fixed[i] : i \in 1..Len(shape.fixed)}
           declared == {f \in {shape.fields[i] : i \in 1..Len(shape.fields)} :
                            struct.fields[f.ident] # None}
       IN  /\ DOMAIN object = {f.name : f \in fixed}
                                \cup {f.name : f \in declared}
                                \cup DOMAIN struct.rest
           /\ \A f \in fixed : object[f.name] = f.value
           /\ \A f \in declared :
                object[f.name] = IF f.kind = "ObjectId"
                                 THEN Number(struct.fields[f.ident].n)
                                 ELSE struct.fields[f.ident]
           /\ \A k \in DOMAIN struct.rest : object[k] = struct.rest[k]
           /\ returned.result.ok
           /\ returned.result.value = struct

\* C31: a set with an empty patch returns 0 and leaves the database as it
\* was, objects and change log alike, whatever the query matches.
C31_EmptySetIsNoOp ==
    [][(returned'.op = "set" /\ DOMAIN returned'.fields = {})
        => (returned'.value = 0 /\ conn' = conn)]_vars

\* an empty patch has been set on a query that matches an object
C31_Witness ==
    /\ returned.op = "set"
    /\ DOMAIN returned.fields = {}
    /\ Matching(conn, returned.query) # {}
    /\ returned.value = 0

\* C32: a commit adds exactly one row to checkpoints, with the description
\* it was given and the largest serial of the change log (0 for an empty
\* log), whether or not the checkpoint changed anything; the rows that were
\* there stay as they were, and so do the objects and the change log.
C32_CommitInsertsOneCheckpoint ==
    [][ncommits' = ncommits + 1
        => LET inserted == conn'.checkpoints \ conn.checkpoints
           IN  /\ Cardinality(inserted) = 1
               /\ conn.checkpoints \subseteq conn'.checkpoints
               /\ \A c \in inserted :
                    /\ c.description = DescriptionOf[ncommits']
                    /\ c.serial = IF conn.object_changes = {} THEN 0
                                  ELSE CHOOSE n \in {e.serial : e \in conn.object_changes} :
                                        \A e \in conn.object_changes : e.serial <= n
                    /\ \A d \in conn.checkpoints :
                            d.checkpoint_id # c.checkpoint_id
               /\ conn'.objects = conn.objects
               /\ conn'.object_changes = conn.object_changes]_vars

\* a checkpoint that changed nothing has been committed on top of a log that
\* is not empty: two rows carry the same serial
C32_Witness ==
    /\ returned.op = "commit"
    /\ \E c, d \in conn.checkpoints :
        /\ c.checkpoint_id # d.checkpoint_id
        /\ c.serial = d.serial
        /\ c.serial > 0

\* C33: inside a checkpoint add, delete and a set with a non-empty patch
\* append one change entry per affected object and nothing else, each with a
\* serial above every serial that was in the log: ("add", id, "{}") for an
\* add, ("delete", id, previous) and ("update", id, previous) for each
\* matching object, previous being the properties the objects table held
\* for that object just before the change.
C33_MutationsAreLoggedOncePerObject ==
    [][(/\ returned'.op \in {"add", "delete", "set"}
        /\ returned'.op = "set" => DOMAIN returned'.fields # {})
        => LET appended == conn'.object_changes \ conn.object_changes
               expected ==
                   CASE returned'.op = "add" ->
                            {<<"add", returned'.value, to_string(<<>>)>>}
                     [] returned'.op = "delete" ->
                            {<<"delete", k, conn.objects[k]>> :
                                k \in Matching(conn, returned'.query)}
                     [] returned'.op = "set" ->
                            {<<"update", k, conn.objects[k]>> :
                                k \in Matching(conn, returned'.query)}
           IN  /\ conn.object_changes \subseteq conn'.object_changes
               /\ \A e \in appended : \A c \in conn.object_changes :
                    e.serial > c.serial
               /\ \A e, f \in appended : e.serial = f.serial => e = f
               /\ Cardinality(appended) = Cardinality(expected)
               /\ {<<e.action, e.object_id, e.previous>> : e \in appended}
                    = expected]_vars

\* C34: whatever checkpoints, adds, sets, deletes, commits, drops and undos
\* came before, an undo replays the changes it reads in strictly descending
\* serial order and every inverse finds exactly one row: it never panics on
\* the row count (and the INSERT of a deleted object never hits an id that
\* is taken).
C34_UndoNeverPanics ==
    returned.op = "undo"
    => /\ returned.value \notin {"panic", "Err"}
       /\ \A i \in 1..Len(returned.replayed) - 1 :
            returned.replayed[i].serial > returned.replayed[i + 1].serial

\* an undo has replayed a checkpoint that added an object, updated it and
\* deleted it
C34_Witness ==
    /\ returned.op = "undo"
    /\ returned.value \in Descriptions
    /\ \E k \in 1..MaxObjects :
        \A a \in {"add", "update", "delete"} :
            \E i \in 1..Len(returned.replayed) :
                /\ returned.replayed[i].action = a
                /\ returned.replayed[i].object_id = k

\* C35: after an undo that returned a description, the change log and the
\* checkpoint table are what they were before the undone checkpoint was
\* made: only its change entries and only its row are gone, the rows of
\* the earlier checkpoints are still there.
C35_UndoRemovesOnlyItsCheckpoint ==
    (/\ returned.op = "undo"
     /\ returned.value \in Descriptions
     /\ returned.undone # <<>>)
    => /\ conn.object_changes = returned.undone[1].before.object_changes
       /\ conn.checkpoints = returned.undone[1].before.checkpoints

\* C36: when refresh_if_needed returns an error the CachedMapping is as it
\* was before the call, objects and captured checkpoint id alike, and
\* valid() does not report it valid.
C36_FailedRefreshLeavesCacheStale ==
    (returned.op = "refresh_if_needed" /\ ~returned.ok)
    => /\ cached[1] = returned.before
       /\ ~(valid(cached[1], conn).ok /\ valid(cached[1], conn).value)

\* C37: a PropLike query over a store where some objects lack the property
\* does not fail because of them: len() is the number of objects whose
\* property matches, iter() yields exactly those objects, and one() fails
\* only when their number is not one.
C37_LikeSkipsObjectsWithoutProperty ==
    LET matches == {k \in DOMAIN conn.objects :
            /\ json_extract(conn.objects[k], returned.query.name) # <<>>
            /\ regexp(like_to_sql_clause(returned.query.name,
                                         returned.query.pattern).params[1],
                      json_extract(conn.objects[k], returned.query.name)[1].s)}
    IN  /\ returned.op = "len"
            => (returned.result.ok
                /\ returned.result.value = Cardinality(matches))
        /\ returned.op = "iter"
            => (returned.result.ok
                /\ DOMAIN returned.result.value = matches)
        /\ returned.op = "one"
            => IF Cardinality(matches) = 1
               THEN returned.result.ok
                    /\ returned.result.value["object_id"].n \in matches
               ELSE returned.result.err = "NotOne"

\* C38: the clause to_sql_clause returns for a QueryNode has as many
\* placeholders as the parameter list has entries; for an And the clause is
\* the children's clauses joined with AND and the parameter list is the
\* children's lists one after the other, in the order of the children, also
\* for children that are Ands.
C38_PlaceholdersMatchParameters ==
    returned.op = "to_sql_clause"
    => /\ placeholders(returned.clause, FALSE) = Len(returned.params)
       /\ returned.query.node = "And"
            => LET children == returned.query.children
                   RECURSIVE joined(_)
                   joined(i) ==
                       IF i > Len(children) THEN <<>>
                       ELSE (IF i > 1 THEN <<"AND">> ELSE <<>>)
                                \o where_clause(children[i]) \o joined(i + 1)
                   RECURSIVE concatenated(_)
                   concatenated(i) ==
                       IF i > Len(children) THEN <<>>
                       ELSE where_params(children[i]) \o concatenated(i + 1)
               IN  /\ returned.clause = joined(1)
                   /\ Len(returned.params) = Len(concatenated(1))
                   /\ \A i \in 1..Len(returned.params) :
                        returned.params[i] = concatenated(1)[i]

\* C39: the conversion of a JSON value to a PropValue gives String for a
\* JSON string and Number for an integer that fits in an i64; for null, a
\* boolean, a float, an integer above i64::MAX, an array and an object it
\* returns an error and does not panic.
C39_JsonConversionNeverPanics ==
    returned.op = "from"
    => LET x == returned.x
           fits == \/ x.json = "NegInt"
                   \/ x.json = "PosInt" /\ x.bits[1] < 32768
       IN  /\ returned.result.outcome # "panic"
           /\ x.json = "String"
                => (/\ returned.result.outcome = "value"
                    /\ returned.result.type = "String"
                    /\ returned.result.s = x.s)
           /\ fits
                => (/\ returned.result.outcome = "value"
                    /\ returned.result.type = "Number"
                    /\ returned.result.bits = x.bits)
           /\ (x.json # "String" /\ ~fits)
                => returned.result.outcome = "Err"

====
